---------------------------- MODULE Spec2Model ----------------------------
(***************************************************************************)
(* A model of 5ua-parser.js: the Meduza parser (parseMeduzaWebsite and its  *)
(* in-page listing extraction) and the RBC parser (tryWithRetry,            *)
(* parseRBCWebsite with its concurrent per-article tasks joined by          *)
(* Promise.all).                                                            *)
(*                                                                         *)
(* Strings the code only copies are short ASCII tokens; the Cyrillic        *)
(* literals of the source are transliterated.  A url is the sequence of its *)
(* path segments, so that url.includes('/politics/') is "politics is one of *)
(* the segments".  A text that the code searches case-insensitively is a    *)
(* sequence of one-character strings.                                       *)
(*                                                                         *)
(* runParser is part of the RBC run: it goes on, in the same turn of the    *)
(* event loop, from where `await parseRBCWebsite()` settles.  The files the *)
(* programs write are kept by name, error-log.txt as the set of its         *)
(* entries.  The debug copies of the article pages and of the Meduza pages,  *)
(* and the console output of the Meduza program, are not modelled.          *)
(***************************************************************************)
EXTENDS Integers, Sequences, FiniteSets, TLC

VARIABLES
    prog,             \* which entry point runs: "rbc", "meduza", "retry"
    pc,               \* position of the main async function
    maxArticles,      \* the maxArticles argument
    maxRetriesArg,    \* the maxRetries argument of the main tryWithRetry call
    nav,              \* state of the main tryWithRetry call
    fnLog,            \* history: the outcome of every call of fn made by it
    categories,       \* Meduza: the categories argument (the filter)
    doc,              \* the DOM of the listing page (of the queried page, for a cascade alone)
    cascade,          \* history: the last selector cascade run, with the selectors it queried
    articles,         \* result of the listing page.evaluate
    uniqueArticles,
    limitedArticles,
    tasks,            \* RBC: the async callbacks of limitedArticles.map
    values,           \* RBC: the slots of Promise.all
    settleOrder,      \* history: task indexes in the order they fulfilled
    progress,         \* RBC: progressBar value
    pagesOpen,        \* RBC: indexes whose articlePage is open
    idx,              \* Meduza: the loop variable i of the detail loop
    detailedArticles, \* Meduza: the records pushed so far
    browserOpen,
    result,           \* what the main function returned (<<>> before it does)
    files,            \* the files written, by name
    console           \* the messages of the RBC program and of the serializers

inputVars == <<prog, maxArticles, maxRetriesArg, categories, doc>>
retryVars == <<nav, fnLog>>
listingVars == <<cascade, articles, uniqueArticles, limitedArticles>>
taskVars == <<tasks, values, settleOrder, progress, pagesOpen>>
loopVars == <<idx, detailedArticles>>
outVars == <<files, console>>

vars == <<inputVars, retryVars, listingVars, taskVars, loopVars, outVars, pc,
          browserOpen, result>>

(***************************** bounds ***************************************)
MaxAnchors == 3        \* anchors on a listing page (listing specifications)
MaxFlowAnchors == 2    \* anchors on a listing page (whole-run specification)
MaxArticlesArg == 2    \* largest maxArticles argument tried
MaxRetriesArg == 4     \* largest maxRetries argument tried (tryWithRetry alone)
MaxElems == 2          \* elements of a page queried by a cascade alone
MaxMatched == 2        \* elements matched by the winning listing selector
MaxContainers == 2     \* containers of the anchor fallback
MaxLinks == 2          \* news anchors inside those containers, in all
MaxTerms == 2          \* terms of the category filter
MaxSegments == 3       \* path segments of a url given to getCategory alone
MaxRecords == 2        \* records given to a serializer alone
MaxWords == 3          \* words of a content given to getTextSentiment alone

(***************************** config ***************************************)
maxRetries == 3

Min(a, b) == IF a < b THEN a ELSE b
Max(a, b) == IF a > b THEN a ELSE b
Range(s) == {s[k] : k \in 1..Len(s)}

Pending == [pending |-> TRUE]
NoDetails == [none |-> TRUE]
Err(op, n) == [op |-> op, n |-> n]
NoError == Err("none", 0)
NoValue == "undefined"

(***************************** tryWithRetry *********************************)
\* The state of one tryWithRetry call: the loop variable, lastError, and how
\* the call ended.
RetryStart == [attempt |-> 1, lastError |-> NoError, status |-> "running",
               value |-> NoValue]

\* Outcomes of one call of fn.
FnOk(v) == [ok |-> TRUE, value |-> v, error |-> NoError]
FnFail(e) == [ok |-> FALSE, value |-> NoValue, error |-> e]

tryWithRetryOffByOne(st, outcome, n) ==
    IF outcome.ok
    THEN [st EXCEPT !.status = "returned", !.value = outcome.value]
    ELSE [st EXCEPT !.lastError = outcome.error,
                    !.attempt = st.attempt + 1,
                    !.status = IF st.attempt + 1 < n THEN "running" ELSE "thrown"]

\* One iteration of the for loop: `return await fn()` or the catch block
\* followed by the loop test, and `throw lastError` when the test fails.
tryWithRetry(st, outcome, n) ==
    IF outcome.ok
    THEN [st EXCEPT !.status = "returned", !.value = outcome.value]
    ELSE [st EXCEPT !.lastError = outcome.error,
                    !.attempt = st.attempt + 1,
                    !.status = IF st.attempt + 1 <= n THEN "running" ELSE "thrown"]

(***************************** pure helpers *********************************)
\* url.includes('/seg/'): seg is a path segment with a slash after it, that
\* is, not the last one.
Includes(url, seg) == \E k \in 1..(Len(url) - 1) : url[k] = seg

getCategoryEconomicsFirst(url) ==
    IF Includes(url, "economics") THEN "Ekonomika"
    ELSE IF Includes(url, "politics") THEN "Politika"
    ELSE IF Includes(url, "society") THEN "Obshchestvo"
    ELSE IF Includes(url, "rbcfreenews") THEN "Srochnye novosti"
    ELSE "Novosti"

getCategory(url) ==
    IF Includes(url, "politics") THEN "Politika"
    ELSE IF Includes(url, "economics") THEN "Ekonomika"
    ELSE IF Includes(url, "society") THEN "Obshchestvo"
    ELSE IF Includes(url, "rbcfreenews") THEN "Srochnye novosti"
    ELSE "Novosti"

\* A text is the sequence of its whitespace-separated words, a word the
\* sequence of its parts; word.includes(w) is "w is one of the parts".
positiveWords == {"rost", "uspekh", "podem", "polozhitelnyi", "khoroshii", "vygod", "razviti"}
negativeWords == {"padenie", "snizhenie", "krizis", "problema", "konflikt", "spad", "risk"}

\* toLowerCase of one part of a word: the parts written in capitals.
LowerPart(part) ==
    CASE part = "ROST" -> "rost"
      [] part = "KRIZIS" -> "krizis"
      [] part = "DOM" -> "dom"
      [] OTHER -> part

\* text.toLowerCase()
LowerText(text) ==
    [w \in 1..Len(text) |-> [k \in 1..Len(text[w]) |-> LowerPart(text[w][k])]]

\* text.split(/\s+/): the empty text splits into [""].
Split(text) == IF text = <<>> THEN << <<>> >> ELSE text

WordHas(word, lexicon) == \E k \in 1..Len(word) : word[k] \in lexicon

Count(words, lexicon) ==
    Cardinality({k \in 1..Len(words) : WordHas(words[k], lexicon)})

getTextSentimentExclusive(text) ==
    LET words == Split(LowerText(text))
        positiveScore == Count(words, positiveWords)
        negativeScore ==
            Cardinality({k \in 1..Len(words) :
                            /\ WordHas(words[k], negativeWords)
                            /\ ~WordHas(words[k], positiveWords)})
    IN [positive |-> positiveScore,
        negative |-> negativeScore,
        neutral |-> Len(words) - positiveScore - negativeScore,
        sentiment |-> IF positiveScore > negativeScore THEN "positive"
                      ELSE IF negativeScore > positiveScore THEN "negative"
                      ELSE "neutral"]

getTextSentiment(text) ==
    LET words == Split(LowerText(text))
        positiveScore == Count(words, positiveWords)
        negativeScore == Count(words, negativeWords)
    IN [positive |-> positiveScore,
        negative |-> negativeScore,
        neutral |-> Len(words) - positiveScore - negativeScore,
        sentiment |-> IF positiveScore > negativeScore THEN "positive"
                      ELSE IF negativeScore > positiveScore THEN "negative"
                      ELSE "neutral"]

\* Array.prototype.slice(0, end)
Slice0(s, end) ==
    IF end >= 0 THEN SubSeq(s, 1, Min(end, Len(s)))
    ELSE SubSeq(s, 1, Max(Len(s) + end, 0))

sliceOneMore(arts, n) == Slice0(arts, n + 1)

\* articles.slice(0, maxArticles)
slice(arts, n) == Slice0(arts, n)

(***************************** RBC listing **********************************)
MapSetKeepFirst(m, key, value) ==
    IF \E k \in 1..Len(m) : m[k][1] = key
    THEN m
    ELSE Append(m, <<key, value>>)

\* Map.prototype.set on a Map kept as a sequence of <<key, value>> in
\* insertion order: an existing key keeps its place and takes the new value.
MapSet(m, key, value) ==
    IF \E k \in 1..Len(m) : m[k][1] = key
    THEN [k \in 1..Len(m) |-> IF m[k][1] = key THEN <<key, value>> ELSE m[k]]
    ELSE Append(m, <<key, value>>)

RECURSIVE NewMap(_)
\* new Map(entries), entries = items.map(item => [item.url, item])
NewMap(items) ==
    IF items = <<>> THEN <<>>
    ELSE LET last == items[Len(items)]
         IN MapSet(NewMap(SubSeq(items, 1, Len(items) - 1)), last.url, last)

MapValues(m) == [k \in 1..Len(m) |-> m[k][2]]

\* The listing page.evaluate: one {title, url} per matched anchor, those
\* with an empty title or url filtered out. An empty title is "".
rbcListing(anchors) ==
    LET Keep(a) == a.title # "" /\ a.url # <<>>
        mapped == [k \in 1..Len(anchors) |->
                     [title |-> anchors[k].title, url |-> anchors[k].url]]
    IN SelectSeq(mapped, Keep)

\* The callback of map has no try: reading the fields of an element that
\* lacks them (innerText of a non-HTML element) throws out of the evaluate.
rbcListingThrows(anchors) == \E k \in 1..Len(anchors) : anchors[k].fault

\* [...new Map(articles.map(item => [item.url, item])).values()]
unique(arts) == MapValues(NewMap(arts))

(***************************** RBC records **********************************)
\* The object returned on the success path: {...article, ...details,
\* category, sentiment, parsedAt}.
FullRecord(article, details) ==
    [title |-> article.title, url |-> article.url,
     content |-> details.content, author |-> details.author,
     tags |-> details.tags, publishedAt |-> details.publishedAt,
     imageUrl |-> details.imageUrl, hasVideo |-> details.hasVideo,
     category |-> getCategory(article.url),
     sentiment |-> getTextSentiment(details.content),
     parsedAt |-> "now"]

\* The object returned by the catch block of a task.
DegradedRecord(article, error) ==
    [title |-> article.title, url |-> article.url,
     category |-> getCategory(article.url),
     content |-> <<>>, author |-> "RBK", tags |-> <<>>,
     hasVideo |-> FALSE, parsedAt |-> "now", error |-> error]

\* What articlePage.evaluate can return: a page with text, author and tags,
\* and a page where no selector matched (the defaults of the callback).
ArticleDetails ==
    { [content |-> << <<"rost">>, <<"dom">> >>, author |-> "Avtor",
       tags |-> <<"tag">>, publishedAt |-> "2025", imageUrl |-> "img",
       hasVideo |-> TRUE],
      [content |-> <<>>, author |-> "RBK", tags |-> <<>>, publishedAt |-> "",
       imageUrl |-> "", hasVideo |-> FALSE] }

(***************************** RBC tasks ************************************)
\* A task is the async callback of limitedArticles.map for one index. Its pc
\* names the await it is suspended at.
\* error is what the catch block caught, rejection what the promise of the
\* task rejected with.
TaskStart == [pc |-> "newPage", retry |-> RetryStart, details |-> NoDetails,
              error |-> NoError, rejection |-> NoError]

TaskSettled(t) == t.pc \in {"fulfilled", "rejected"}
AnyRejected == \E k \in DOMAIN tasks : tasks[k].pc = "rejected"
AllFulfilled == \A k \in DOMAIN tasks : tasks[k].pc = "fulfilled"

\* The continuation of `await Promise.all(...)` is ready: it runs before any
\* further completion of a task is delivered.
JoinReady == pc = "join" /\ (AnyRejected \/ AllFulfilled)

PromiseAllCompletionOrder(vals, index, v) ==
    LET free == {k \in 1..Len(vals) : vals[k] = Pending}
        first == CHOOSE k \in free : \A m \in free : k <= m
    IN [vals EXCEPT ![first] = v]

\* Promise.all stores the value of the promise at `index` in slot `index`.
PromiseAll(vals, index, v) == [vals EXCEPT ![index] = v]

TaskRethrow(t, e) == [t EXCEPT !.pc = "rejected", !.error = e]

\* An error thrown inside the try block of a task: control enters the catch
\* block, which first awaits articlePage.close(); `details`, a constant of
\* the try block, is out of scope there.
TaskCatch(t, e) == [t EXCEPT !.pc = "catchClose", !.error = e, !.details = NoDetails]

\* An error thrown outside the try block, or inside the catch block: the
\* promise of the task rejects.
TaskReject(t, e) == [t EXCEPT !.pc = "rejected", !.rejection = e]

\* The await the task is suspended at settles, with success (ok) or with an
\* error; d is what articlePage.evaluate returns when it is the one.
TaskNext(t, ok, d) ==
    CASE t.pc = "newPage" ->
           IF ok THEN [t EXCEPT !.pc = "setRequestInterception"]
           ELSE TaskReject(t, Err("newPage", 0))
      [] t.pc = "setRequestInterception" ->
           IF ok THEN [t EXCEPT !.pc = "setUserAgent"]
           ELSE TaskReject(t, Err("setRequestInterception", 0))
      [] t.pc = "setUserAgent" ->
           IF ok THEN [t EXCEPT !.pc = "goto"]
           ELSE TaskReject(t, Err("setUserAgent", 0))
      [] t.pc = "goto" ->
           LET r == tryWithRetry(t.retry,
                                 IF ok THEN FnOk("response")
                                 ELSE FnFail(Err("goto", t.retry.attempt)),
                                 maxRetries)
           IN \* the frame of a finished tryWithRetry call is gone
              IF r.status = "returned"
              THEN [t EXCEPT !.pc = "evaluate", !.retry = RetryStart]
              ELSE IF r.status = "thrown"
                   THEN TaskCatch([t EXCEPT !.retry = RetryStart], r.lastError)
                   ELSE [t EXCEPT !.retry = r]
      [] t.pc = "evaluate" ->
           IF ok THEN [t EXCEPT !.pc = "close", !.details = d]
           ELSE TaskCatch(t, Err("evaluate", 0))
      [] t.pc = "close" ->
           IF ok THEN [t EXCEPT !.pc = "fulfilled"]
           ELSE TaskCatch(t, Err("close", 0))
      [] t.pc = "catchClose" ->
           IF ok THEN [t EXCEPT !.pc = "fulfilled"]
           ELSE TaskReject(t, Err("catchClose", 0))
      [] OTHER -> t

\* progressBar.increment() placed before `await articlePage.close()` in the
\* try block: a failing close then reaches the increment of the catch too.
incrementsBeforeClose(t, nt) ==
    IF t.pc = "evaluate" /\ nt.pc = "close" THEN 1
    ELSE IF t.pc = "catchClose" /\ nt.pc = "fulfilled" THEN 1
    ELSE 0

\* The calls of progressBar.increment() made while the task goes from t to
\* nt: the one after the close of the try block, or the one after the close
\* of the catch block; both are followed by the return of the record.
increments(t, nt) == IF nt.pc = "fulfilled" THEN 1 ELSE 0

\* The value a fulfilled task returns.
TaskValue(t, article) ==
    IF t.error = NoError THEN FullRecord(article, t.details)
    ELSE DegradedRecord(article, t.error)

(***************************** inputs ***************************************)
Urls == { <<"politics", "a">>, <<"society", "b">>, <<"economics", "politics", "c">> }
Titles == {"T1", "T2"}

SeqsUpTo(S, n) == UNION { [1..k -> S] : k \in 0..n }

\* Anchors of a listing page: innerText.trim() may be empty; one anchor
\* whose fields cannot be read.
Anchors ==
    [title : Titles \cup {""}, url : Urls, fault : {FALSE}]
    \cup {[title |-> "T2", url |-> <<"society", "b">>, fault |-> TRUE]}

\* Whole runs use pages whose anchors carry the title of their url.
FlowAnchors ==
    { [title |-> "T1", url |-> <<"politics", "a">>, fault |-> FALSE],
      [title |-> "T2", url |-> <<"society", "b">>, fault |-> FALSE],
      [title |-> "T1", url |-> <<"economics", "politics", "c">>, fault |-> FALSE] }

(***************************** serializers **********************************)
\* A JS string is the sequence of its characters; a run of characters the
\* code never looks into is one element.  A JS object is the sequence of its
\* <<key, value>> pairs in insertion order.  A JS value is a record with a
\* single field that names its type.
JsStr(chars) == [str |-> chars]
JsArr(items) == [arr |-> items]
JsObj(pairs) == [obj |-> pairs]
JsBool(b) == [bool |-> b]
JsNum(n) == [num |-> n]
JsNull == [null |-> TRUE]
JsUndefined == [undef |-> TRUE]

IsStr(v) == "str" \in DOMAIN v
IsArr(v) == "arr" \in DOMAIN v
IsObj(v) == "obj" \in DOMAIN v
IsBool(v) == "bool" \in DOMAIN v
IsNum(v) == "num" \in DOMAIN v
IsNullish(v) == "null" \in DOMAIN v \/ "undef" \in DOMAIN v

Quote == "\""

RECURSIVE Join(_, _)
\* Array.prototype.join on an array of strings.
Join(strs, sep) ==
    IF strs = <<>> THEN <<>>
    ELSE IF Len(strs) = 1 THEN strs[1]
    ELSE strs[1] \o sep \o Join(Tail(strs), sep)

\* Object.keys
ObjectKeys(o) == [k \in 1..Len(o) |-> o[k][1]]

\* Object.values
ObjectValues(o) == [k \in 1..Len(o) |-> o[k][2]]

\* item[key], undefined when the object has no such key.
Get(o, key) ==
    IF \E k \in 1..Len(o) : o[k][1] = key
    THEN o[CHOOSE k \in 1..Len(o) : o[k][1] = key][2]
    ELSE JsUndefined

RECURSIVE ReplaceQuotes(_, _)
\* String.prototype.replace(/"/g, by)
ReplaceQuotes(chars, by) ==
    IF chars = <<>> THEN <<>>
    ELSE (IF Head(chars) = Quote THEN by ELSE <<Head(chars)>>)
         \o ReplaceQuotes(Tail(chars), by)

\* String(value) of a primitive.
ToJsString(v) ==
    IF IsStr(v) THEN v.str
    ELSE IF IsBool(v) THEN (IF v.bool THEN <<"true">> ELSE <<"false">>)
    ELSE IF IsNum(v) THEN <<ToString(v.num)>>
    ELSE IF "null" \in DOMAIN v THEN <<"null">>
    ELSE <<"undefined">>

RECURSIVE Stringify(_)
\* JSON.stringify, the white space of the indentation left out. A member
\* whose value is undefined is left out; inside an array it is null.
Stringify(v) ==
    IF IsStr(v) THEN <<Quote>> \o ReplaceQuotes(v.str, <<"\\", Quote>>) \o <<Quote>>
    ELSE IF IsArr(v)
         THEN <<"[">> \o Join([k \in 1..Len(v.arr) |->
                                  IF "undef" \in DOMAIN v.arr[k] THEN <<"null">>
                                  ELSE Stringify(v.arr[k])], <<",">>) \o <<"]">>
    ELSE IF IsObj(v)
         THEN LET Defined(p) == "undef" \notin DOMAIN p[2]
                  members == SelectSeq(v.obj, Defined)
              IN <<"{">> \o Join([k \in 1..Len(members) |->
                                    <<Quote, members[k][1], Quote, ":">>
                                    \o Stringify(members[k][2])], <<",">>) \o <<"}">>
    ELSE ToJsString(v)

\* A file system: the content of each file written, by name.
WriteFile(fs, name, content) == (name :> content) @@ fs

\* The effect of a serializer: the file system and the console after it.
Effect(fs, out) == [files |-> fs, console |-> out]

\* saveToJson(data, filename) of the Meduza program.
meduzaSaveToJson(data, filename, fs, out) ==
    Effect(WriteFile(fs, filename, Stringify(JsArr([k \in 1..Len(data) |-> JsObj(data[k])]))),
           Append(out, "Dannye sokhraneny"))

\* saveToJson(data, filename) of the RBC program.
rbcSaveToJson(data, filename, fs, out) ==
    IF Len(data) = 0 THEN Effect(fs, Append(out, "Net dannykh dlya sokhraneniya v JSON"))
    ELSE Effect(WriteFile(fs, filename,
                          Stringify(JsArr([k \in 1..Len(data) |-> JsObj(data[k])]))),
                Append(out, "Dannye sokhraneny"))

\* Array.prototype.join on an array of primitives: null and undefined give
\* the empty string.
ArrayJoin(items, sep) ==
    Join([k \in 1..Len(items) |->
            IF IsNullish(items[k]) THEN <<>> ELSE ToJsString(items[k])], sep)

SetAddMoveLast(set, key) ==
    LET Other(k) == k # key
    IN Append(SelectSeq(set, Other), key)

\* Set.prototype.add on a Set kept as the sequence of its members in
\* insertion order.
SetAdd(set, key) == IF key \in Range(set) THEN set ELSE Append(set, key)

RECURSIVE SetAddAll(_, _)
SetAddAll(set, keys) ==
    IF keys = <<>> THEN set ELSE SetAddAll(SetAdd(set, Head(keys)), Tail(keys))

rbcHeadersOfFirst(data) == ObjectKeys(data[1])

RECURSIVE rbcHeaders(_)
\* data.forEach(item => Object.keys(item).forEach(key => allKeys.add(key)));
\* headers = Array.from(allKeys)
rbcHeaders(data) ==
    IF data = <<>> THEN <<>>
    ELSE SetAddAll(rbcHeaders(SubSeq(data, 1, Len(data) - 1)),
                   ObjectKeys(data[Len(data)]))

\* The callback of headers.map in the RBC saveToCsv.
rbcRender(value) ==
    IF IsNullish(value) THEN <<Quote, Quote>>
    ELSE IF IsObj(value)
         THEN <<Quote>> \o ReplaceQuotes(Stringify(value), <<Quote, Quote>>) \o <<Quote>>
    ELSE IF IsArr(value)
         THEN <<Quote>> \o ReplaceQuotes(ArrayJoin(value.arr, <<"; ">>), <<Quote, Quote>>)
              \o <<Quote>>
    ELSE <<Quote>> \o ReplaceQuotes(ToJsString(value), <<Quote, Quote>>) \o <<Quote>>

rbcFieldsByPosition(item, headers) ==
    [j \in 1..Len(item) |-> rbcRender(item[j][2])]

\* headers.map(header => render(item[header]))
rbcFields(item, headers) ==
    [j \in 1..Len(headers) |-> rbcRender(Get(item, headers[j]))]

BOM == "\\ufeff"

\* saveToCsv(data, filename) of the RBC program.
rbcSaveToCsv(data, filename, fs, out) ==
    IF Len(data) = 0 THEN Effect(fs, Append(out, "Net dannykh dlya sokhraneniya v CSV"))
    ELSE LET headers == rbcHeaders(data)
             rows == [k \in 1..Len(data) |-> Join(rbcFields(data[k], headers), <<",">>)]
             headerLine == Join([j \in 1..Len(headers) |-> <<headers[j]>>], <<",">>)
             csvContent == Join(<<headerLine>> \o rows, <<"\n">>)
         IN Effect(WriteFile(fs, filename, <<BOM>> \o csvContent),
                   Append(out, "Dannye sokhraneny"))

\* The callback of Object.values(item).map in the Meduza saveToCsv:
\* (value || '') of a falsy value is the empty string.
meduzaRender(value) ==
    IF IsArr(value)
    THEN <<Quote>> \o ReplaceQuotes(ArrayJoin(value.arr, <<"; ">>), <<Quote, Quote>>)
         \o <<Quote>>
    ELSE IF \/ IsNullish(value)
            \/ IsBool(value) /\ ~value.bool
            \/ IsNum(value) /\ value.num = 0
         THEN <<Quote, Quote>>
    ELSE IF IsObj(value) THEN <<Quote, "[object Object]", Quote>>
    ELSE <<Quote>> \o ReplaceQuotes(ToJsString(value), <<Quote, Quote>>) \o <<Quote>>

\* saveToCsv(data, filename) of the Meduza program.
meduzaSaveToCsv(data, filename, fs, out) ==
    IF Len(data) = 0 THEN Effect(fs, Append(out, "Net dannykh dlya sokhraneniya v CSV"))
    ELSE LET headers == Join([j \in 1..Len(data[1]) |-> <<data[1][j][1]>>], <<",">>)
             rows == [k \in 1..Len(data) |->
                        Join([j \in 1..Len(data[k]) |-> meduzaRender(data[k][j][2])],
                             <<",">>)]
             csvContent == Join(<<headers>> \o rows, <<"\n">>)
         IN Effect(WriteFile(fs, filename, csvContent),
                   Append(out, "Dannye sokhraneny"))

(***************************** records as JS objects ************************)
\* The characters of a token; the empty token is the empty string.
Chars(token) == IF token = "" THEN <<>> ELSE <<token>>

\* The characters of a content: the parts of its words, the words one space
\* apart.
ContentChars(content) == Join(content, <<" ">>)

\* The object getTextSentiment returns, its keys in the order of the literal.
SentimentObject(st) ==
    JsObj(<< <<"positive", JsNum(st.positive)>>, <<"negative", JsNum(st.negative)>>,
             <<"neutral", JsNum(st.neutral)>>, <<"sentiment", JsStr(<<st.sentiment>>)>> >>)

\* The value of one field of a record of parseRBCWebsite.
FieldValue(r, key) ==
    CASE key = "title" -> JsStr(Chars(r.title))
      [] key = "url" -> JsStr(r.url)
      [] key = "content" -> JsStr(ContentChars(r.content))
      [] key = "author" -> JsStr(Chars(r.author))
      [] key = "tags" -> JsArr([k \in 1..Len(r.tags) |-> JsStr(Chars(r.tags[k]))])
      [] key = "publishedAt" -> JsStr(Chars(r.publishedAt))
      [] key = "imageUrl" -> JsStr(Chars(r.imageUrl))
      [] key = "hasVideo" -> JsBool(r.hasVideo)
      [] key = "category" -> JsStr(Chars(r.category))
      [] key = "sentiment" -> SentimentObject(r.sentiment)
      [] key = "parsedAt" -> JsStr(Chars(r.parsedAt))
      [] key = "error" -> JsStr(Chars(r.error.op))

\* The keys of the record of the success path, in the order of
\* {...article, ...details, category, sentiment, parsedAt}.
fullKeys == <<"title", "url", "content", "author", "tags", "publishedAt", "imageUrl",
              "hasVideo", "category", "sentiment", "parsedAt">>

\* The keys of the record of the catch block, in the order of its literal.
degradedKeys == <<"title", "url", "category", "content", "author", "tags", "hasVideo",
                  "parsedAt", "error">>

\* A record of parseRBCWebsite as a JS object.
RecordObject(r) ==
    LET keys == IF "error" \in DOMAIN r THEN degradedKeys ELSE fullKeys
    IN [k \in 1..Len(keys) |-> <<keys[k], FieldValue(r, keys[k])>>]

RecordObjects(rs) == [k \in 1..Len(rs) |-> RecordObject(rs[k])]

\* JSON.stringify(records, null, 2)
RecordsJson(rs) == Stringify(JsArr([k \in 1..Len(rs) |-> JsObj(RecordObject(rs[k]))]))

\* logError: the message on the console and an entry appended to
\* error-log.txt, the log kept as the set of its entries.
LogEntry(message, error, articleUrl) ==
    [message |-> message, error |-> error.op, url |-> articleUrl]

LogError(fs, message, error, articleUrl) ==
    WriteFile(fs, "error-log.txt",
              (IF "error-log.txt" \in DOMAIN fs THEN fs["error-log.txt"] ELSE {})
              \cup {LogEntry(message, error, articleUrl)})

invalidArticlesWithError(detailed) ==
    LET Degraded(a) == "error" \in DOMAIN a
    IN SelectSeq(detailed, Degraded)

\* detailedArticles.filter(article => !article.content)
invalidArticles(detailed) ==
    LET NoText(a) == a.content = <<>>
    IN SelectSeq(detailed, NoText)

\* detailedArticles.filter(article => article.content)
validArticles(detailed) ==
    LET HasText(a) == a.content # <<>>
    IN SelectSeq(detailed, HasText)

\* The number of records that satisfy a filter of the statistics.
CountWhere(rs, what) ==
    Cardinality({k \in 1..Len(rs) :
        CASE what = "content" -> rs[k].content # <<>>
          [] what = "tags" -> rs[k].tags # <<>>
          [] what = "images" -> "imageUrl" \in DOMAIN rs[k] /\ rs[k].imageUrl # ""
          [] what = "videos" -> rs[k].hasVideo
          [] OTHER -> "sentiment" \in DOMAIN rs[k] /\ rs[k].sentiment.sentiment = what})

\* Object.entries of the per-category counts, the categories in the order
\* in which they are first met.
CategoriesCount(rs) ==
    LET cats == SetAddAll(<<>>, [k \in 1..Len(rs) |-> rs[k].category])
    IN JsArr([c \in 1..Len(cats) |->
                JsArr(<<JsStr(<<cats[c]>>),
                        JsNum(Cardinality({k \in 1..Len(rs) : rs[k].category = cats[c]}))>>)])

\* The stats object of runParser; the run takes no time on the clock.
Stats(rs) ==
    JsObj(<< <<"totalArticles", JsNum(Len(rs))>>,
             <<"articlesWithContent", JsNum(CountWhere(rs, "content"))>>,
             <<"articlesWithTags", JsNum(CountWhere(rs, "tags"))>>,
             <<"articlesWithImages", JsNum(CountWhere(rs, "images"))>>,
             <<"articlesWithVideos", JsNum(CountWhere(rs, "videos"))>>,
             <<"categoriesCount", CategoriesCount(rs)>>,
             <<"sentimentStats",
               JsObj(<< <<"positive", JsNum(CountWhere(rs, "positive"))>>,
                        <<"negative", JsNum(CountWhere(rs, "negative"))>>,
                        <<"neutral", JsNum(CountWhere(rs, "neutral"))>> >>)>>,
             <<"executionTimeMs", JsNum(0)>> >>)

(***************************** parseRBCWebsite ******************************)
NoCascade == [elements |-> <<>>, queried |-> <<>>]

\* Before the listing has been evaluated.
NothingYet ==
    /\ cascade = NoCascade
    /\ articles = <<>> /\ uniqueArticles = <<>> /\ limitedArticles = <<>>
    /\ tasks = <<>> /\ values = <<>> /\ settleOrder = <<>>
    /\ progress = 0 /\ pagesOpen = {}
    /\ idx = 0 /\ detailedArticles = <<>>
    /\ result = <<>>
    /\ files = <<>> /\ console = <<>>

\* Before the run has produced anything.
Idle ==
    /\ nav = RetryStart /\ fnLog = <<>>
    /\ browserOpen = FALSE
    /\ NothingYet

InitRBC ==
    /\ prog = "rbc"
    /\ pc = "launch"
    /\ maxArticles \in 1..MaxArticlesArg
    /\ maxRetriesArg = maxRetries
    /\ categories = <<>>
    /\ doc \in SeqsUpTo(FlowAnchors, MaxFlowAnchors)
    /\ Idle

\* `return X` inside try or catch: the finally block starts browser.close().
Return(res) ==
    /\ result' = res
    /\ pc' = "closing"

\* runParser without the test of `articles.length`.
runParserAlwaysSaves(articlesReturned, fs, out) ==
    LET data == RecordObjects(articlesReturned)
        j == rbcSaveToJson(data, "rbc-articles.json", fs, out)
        c == rbcSaveToCsv(data, "rbc_news_articles.csv", j.files, j.console)
    IN Effect(WriteFile(c.files, "parsing-stats.json",
                        Stringify(Stats(articlesReturned))),
              c.console \o <<"Statistika", "Parsing zavershen uspeshno">>)

\* runParser after `await parseRBCWebsite()` returned articles: with
\* records, the two serializers and the statistics file; without, the
\* message that no articles were obtained.
runParser(articlesReturned, fs, out) ==
    IF Len(articlesReturned) > 0
    THEN LET data == RecordObjects(articlesReturned)
             j == rbcSaveToJson(data, "rbc-articles.json", fs, out)
             c == rbcSaveToCsv(data, "rbc_news_articles.csv", j.files, j.console)
         IN Effect(WriteFile(c.files, "parsing-stats.json",
                             Stringify(Stats(articlesReturned))),
                   c.console \o <<"Statistika", "Parsing zavershen uspeshno">>)
    ELSE Effect(fs, Append(out, "Ne udalos poluchit stati"))

\* The catch block of runParser, entered when parseRBCWebsite threw.
runParserCatch(error, fs, out) ==
    Effect(LogError(fs, "Kriticheskaya oshibka pri vypolnenii parsera", error, <<>>),
           out \o <<"Kriticheskaya oshibka pri vypolnenii parsera",
                    "Parsing zavershen s oshibkami">>)

\* The outer catch block of parseRBCWebsite: logError, `return []`.
OuterCatch(error) ==
    /\ files' = LogError(files, "Proizoshla obshchaya oshibka pri parsinge", error, <<>>)
    /\ console' = Append(console, "Proizoshla obshchaya oshibka pri parsinge")
    /\ Return(<<>>)

\* puppeteer.launch, before the try block: when it fails parseRBCWebsite
\* throws into the catch block of runParser.
RbcLaunch ==
    /\ prog = "rbc" /\ pc = "launch"
    /\ \E ok \in BOOLEAN :
         IF ok THEN pc' = "newPage" /\ browserOpen' = TRUE /\ UNCHANGED outVars
         ELSE LET e == runParserCatch(Err("launch", 0), files, console)
              IN /\ pc' = "threw" /\ browserOpen' = FALSE
                 /\ files' = e.files /\ console' = e.console
    /\ UNCHANGED <<inputVars, retryVars, listingVars, taskVars, loopVars, result>>

\* browser.newPage, setRequestInterception, setUserAgent of the listing page.
RbcOpenPage ==
    /\ prog = "rbc" /\ pc = "newPage"
    /\ \E ok \in BOOLEAN :
         IF ok THEN pc' = "goto" /\ UNCHANGED <<result, outVars>>
         ELSE OuterCatch(Err("newPage", 0))
    /\ UNCHANGED <<inputVars, retryVars, listingVars, taskVars, loopVars, browserOpen>>

\* One call of page.goto made by tryWithRetry.
RbcGoto ==
    /\ prog = "rbc" /\ pc = "goto"
    /\ \E ok \in BOOLEAN :
         LET outcome == IF ok THEN FnOk("response")
                        ELSE FnFail(Err("goto", nav.attempt))
             r == tryWithRetry(nav, outcome, maxRetriesArg)
         IN /\ nav' = r
            /\ fnLog' = Append(fnLog, outcome)
            /\ IF r.status = "returned"
               THEN /\ pc' = "evaluate"
                    /\ console' = Append(console, "Stranitsa zagruzhena")
                    /\ UNCHANGED <<result, files>>
               ELSE IF r.status = "thrown" THEN OuterCatch(r.lastError)
               ELSE UNCHANGED <<pc, result, outVars>>
    /\ UNCHANGED <<inputVars, listingVars, taskVars, loopVars, browserOpen>>

\* waitForSelector (its error is caught), page.content and the debug copy of
\* the page, the listing page.evaluate, then synchronously uniqueArticles,
\* limitedArticles and the start of every task up to its first await. On a
\* failure the debug copy was written (saved) or not.
RbcEvaluate ==
    /\ prog = "rbc" /\ pc = "evaluate"
    /\ \E ok, saved \in BOOLEAN :
         LET debug == IF saved THEN WriteFile(files, "debug-rbc.html", <<"html">>)
                      ELSE files
         IN IF ok /\ ~rbcListingThrows(doc)
            THEN LET arts == rbcListing(doc)
                     uniq == unique(arts)
                     lim == slice(uniq, maxArticles)
                 IN /\ saved
                    /\ articles' = arts
                    /\ uniqueArticles' = uniq
                    /\ limitedArticles' = lim
                    /\ tasks' = [k \in 1..Len(lim) |-> TaskStart]
                    /\ values' = [k \in 1..Len(lim) |-> Pending]
                    /\ pc' = "join"
                    /\ result' = result
                    /\ files' = debug
                    /\ console' = console \o <<"Sokhranen HTML stranitsy",
                                               "Naideno unikalnykh statei">>
            ELSE /\ ok => saved
                 /\ files' = LogError(debug, "Proizoshla obshchaya oshibka pri parsinge",
                                      Err(IF ok THEN "TypeError" ELSE "evaluate", 0),
                                      <<>>)
                 /\ console' = (IF saved THEN Append(console, "Sokhranen HTML stranitsy")
                                ELSE console)
                                \o <<"Proizoshla obshchaya oshibka pri parsinge">>
                 /\ Return(<<>>)
                 /\ UNCHANGED <<articles, uniqueArticles, limitedArticles, tasks, values>>
    /\ UNCHANGED <<inputVars, retryVars, cascade, settleOrder, progress, pagesOpen,
                   loopVars, browserOpen>>

\* The await of task i settles. When the catch block gets past its close it
\* calls logError before it returns the degraded record; of logError the
\* entry in error-log.txt is kept, `console` holds the messages of the main
\* flow of parseRBCWebsite and of runParser only.
TaskStep(i) ==
    /\ prog = "rbc"
    /\ i \in DOMAIN tasks
    /\ ~TaskSettled(tasks[i])
    /\ ~JoinReady
    /\ \E ok \in BOOLEAN :
       \E d \in (IF tasks[i].pc = "evaluate" /\ ok THEN ArticleDetails ELSE {NoDetails}) :
         LET t == tasks[i]
             nt == TaskNext(t, ok, d)
         IN /\ (browserOpen \/ ~ok)
            /\ tasks' = [tasks EXCEPT ![i] = nt]
            /\ pagesOpen' =
                 IF t.pc = "newPage" /\ ok THEN pagesOpen \cup {i}
                 ELSE IF t.pc \in {"close", "catchClose"} /\ ok THEN pagesOpen \ {i}
                 ELSE pagesOpen
            /\ progress' = progress + increments(t, nt)
            /\ IF nt.pc = "fulfilled"
               THEN /\ values' = PromiseAll(values, i, TaskValue(nt, limitedArticles[i]))
                    /\ settleOrder' = Append(settleOrder, i)
               ELSE UNCHANGED <<values, settleOrder>>
            /\ IF nt.pc = "fulfilled" /\ nt.error # NoError
               THEN /\ files' = LogError(files, "Oshibka pri parsinge stati", nt.error,
                                         limitedArticles[i].url)
                    /\ UNCHANGED console
               ELSE UNCHANGED outVars
    /\ UNCHANGED <<inputVars, retryVars, listingVars, loopVars, pc, browserOpen, result>>

\* Promise.all fulfilled: progressBar.stop, the valid/invalid filters, the
\* side file of the records without content, `return detailedArticles`.
RbcJoinResolved ==
    /\ prog = "rbc" /\ pc = "join" /\ AllFulfilled
    /\ LET invalid == invalidArticles(values)
       IN IF Len(invalid) > 0
          THEN /\ files' = WriteFile(files, "failed-articles.json", RecordsJson(invalid))
               /\ console' = console \o <<"Uspeshno obrabotano statei",
                                          "statei ne soderzhat kontenta">>
          ELSE /\ files' = files
               /\ console' = Append(console, "Uspeshno obrabotano statei")
    /\ Return(values)
    /\ UNCHANGED <<inputVars, retryVars, listingVars, taskVars, loopVars, browserOpen>>

\* Promise.all rejected with the first rejection: the outer catch block,
\* `return []`.
RbcJoinRejected ==
    /\ prog = "rbc" /\ pc = "join" /\ AnyRejected
    /\ OuterCatch(tasks[CHOOSE k \in DOMAIN tasks : tasks[k].pc = "rejected"].rejection)
    /\ UNCHANGED <<inputVars, retryVars, listingVars, taskVars, loopVars, browserOpen>>

\* finally: `await browser.close()` completes; the function returns, or
\* rethrows what parseMeduzaWebsite's outer catch rethrew. The code that
\* awaits parseRBCWebsite, runParser, goes on at once with what it returned.
BrowserClosed ==
    /\ pc \in {"closing", "closingThrow"}
    /\ pc' = IF pc = "closing" THEN "done" ELSE "threw"
    /\ browserOpen' = FALSE
    /\ IF prog = "rbc"
       THEN LET e == runParser(result, files, Append(console, "Brauzer zakryt"))
            IN files' = e.files /\ console' = e.console
       ELSE UNCHANGED outVars
    /\ UNCHANGED <<inputVars, retryVars, listingVars, taskVars, loopVars, result>>

NextRBC ==
    \/ RbcLaunch
    \/ RbcOpenPage
    \/ RbcGoto
    \/ RbcEvaluate
    \/ \E i \in 1..(MaxFlowAnchors + 1) : TaskStep(i)
    \/ RbcJoinResolved
    \/ RbcJoinRejected
    \/ BrowserClosed

SpecRBC == InitRBC /\ [][NextRBC]_vars

\* The event loop delivers every completion: an await that has settled is
\* resumed, whatever the other tasks do.
FairRBC ==
    /\ WF_vars(NextRBC)
    /\ \A i \in 1..MaxArticlesArg : WF_vars(TaskStep(i))

SpecRBCFair == SpecRBC /\ FairRBC

(***************************** tryWithRetry alone ***************************)
FnOutcomes ==
    {FnOk(v) : v \in {"v1", "v2"}} \cup {FnFail(Err("fn", e)) : e \in 1..3}

InitRetry ==
    /\ prog = "retry"
    /\ pc = "tryWithRetry"
    /\ maxArticles = 1
    /\ maxRetriesArg \in 1..MaxRetriesArg
    /\ categories = <<>>
    /\ doc = <<>>
    /\ Idle

\* tryWithRetry calls fn once more.
RetryCall ==
    /\ prog = "retry" /\ pc = "tryWithRetry"
    /\ \E outcome \in FnOutcomes :
         LET r == tryWithRetry(nav, outcome, maxRetriesArg)
         IN /\ nav' = r
            /\ fnLog' = Append(fnLog, outcome)
            /\ pc' = IF r.status = "running" THEN pc ELSE "done"
    /\ UNCHANGED <<inputVars, outVars, listingVars, taskVars, loopVars, browserOpen, result>>

NextRetry == RetryCall

SpecRetry == InitRetry /\ [][NextRetry]_vars

(***************************** C4 *******************************************)
AllFailed(log) == \A k \in 1..Len(log) : ~log[k].ok

\* C4: tryWithRetry with maxRetries = n >= 1 calls fn again only after a
\* failure and never more than n times; once fn succeeds, after k < n
\* failures, the call has returned the result of that call and fn has been
\* invoked exactly k + 1 times; once fn has failed n times the call has thrown
\* the error of the last attempt and fn has been invoked exactly n times.
C4_RetryAttempts ==
    LET n == maxRetriesArg
        calls == Len(fnLog)
    IN /\ calls <= n
       /\ AllFailed(SubSeq(fnLog, 1, calls - 1))
       /\ (calls > 0 /\ fnLog[calls].ok) =>
             nav.status = "returned" /\ nav.value = fnLog[calls].value
       /\ (calls = n /\ AllFailed(fnLog)) =>
             nav.status = "thrown" /\ nav.lastError = fnLog[n].error
       /\ (calls < n /\ AllFailed(fnLog)) => nav.status = "running"

\* fn failed twice and then succeeded, with maxRetries = 3: three attempts.
C4_Witness ==
    /\ prog = "retry" /\ maxRetriesArg = 3
    /\ Len(fnLog) = 3 /\ ~fnLog[1].ok /\ ~fnLog[2].ok /\ fnLog[3].ok
    /\ nav.status = "returned"

(***************************** C1, C2, C3 ***********************************)
Returned == pc \in {"closing", "done"}
TasksStarted == prog = "rbc" /\ Len(tasks) = Len(limitedArticles) /\ Len(tasks) > 0
AllSettled == \A k \in DOMAIN tasks : TaskSettled(tasks[k])

\* The navigation of task k failed on every attempt of tryWithRetry and
\* nothing else of the task failed.
NavExhaustedOnly(k) ==
    /\ tasks[k].error = Err("goto", maxRetries)
    /\ tasks[k].rejection = NoError

\* Every step of task k succeeded in the end.
Succeeded(k) ==
    /\ tasks[k].error = NoError
    /\ tasks[k].rejection = NoError

OneNavFailure(i) ==
    /\ TasksStarted /\ Returned /\ AllSettled
    /\ NavExhaustedOnly(i)
    /\ \A k \in DOMAIN tasks \ {i} : Succeeded(k)

\* C1: when the navigation of exactly one task fails on every attempt and
\* every other task succeeds, parseRBCWebsite returns one record per stub of
\* limitedArticles; the record of the failed task is the only one with an
\* `error` field, every other record is the stub merged with the details its
\* task extracted.
C1_FailureIsolation ==
    \A i \in DOMAIN tasks :
        OneNavFailure(i) =>
            /\ Len(result) = Len(limitedArticles)
            /\ \A k \in DOMAIN tasks :
                 IF k = i
                 THEN /\ "error" \in DOMAIN result[k]
                      /\ result[k].url = limitedArticles[k].url
                 ELSE /\ "error" \notin DOMAIN result[k]
                      /\ result[k] = FullRecord(limitedArticles[k], tasks[k].details)

C1_Witness ==
    /\ pc = "done" /\ Len(limitedArticles) = 2
    /\ OneNavFailure(1)
    /\ Len(result) = 2
    /\ result[2].content # <<>>

\* C2: once the tasks have been started, whatever step of a task fails,
\* parseRBCWebsite returns one record per stub of limitedArticles (it never
\* returns through the outer catch).
C2_BatchNeverAborts ==
    (TasksStarted /\ Returned) => Len(result) = Len(limitedArticles)

\* C3: when every task has completed, the record at index k of the
\* returned sequence is derived from the stub at index k of limitedArticles,
\* whatever the order in which the tasks completed.
C3_OrderPreserved ==
    (TasksStarted /\ Returned /\ AllFulfilled) =>
        /\ Len(result) = Len(limitedArticles)
        /\ \A k \in DOMAIN tasks :
             /\ result[k].url = limitedArticles[k].url
             /\ result[k].title = limitedArticles[k].title

\* The second task completed before the first, and the run returned.
C3_Witness ==
    /\ TasksStarted /\ pc = "done" /\ AllFulfilled
    /\ settleOrder = <<2, 1>>
    /\ Len(result) = 2
    /\ result[1].url # result[2].url

(***************************** selector cascades ****************************)
\* A page answers a selector with the sequence of the elements matching it,
\* in document order: doc.matches[selector].
selectors == <<".NewsBlock-first", ".NewsBlock", ".NewsCard", ".SimpleBlock",
               "[data-testid=news-tape-item]">>
contentSelectors == <<".GeneralMaterial-article", ".RichBlock", ".Material-body",
                      "article">>
menuSelectors == <<".Header-menu a", ".Header-tabs a", "nav a",
                   "[data-testid=menu-item]">>


RECURSIVE QueryAllFrom(_, _, _)
\* for (const selector of sels) { elements = querySelectorAll(selector);
\*   if (elements && elements.length > 0) { found = elements; break; } }
QueryAllFrom(matches, sels, k) ==
    IF k > Len(sels) THEN [elements |-> <<>>, queried |-> sels]
    ELSE IF Len(matches[sels[k]]) > 0
         THEN [elements |-> matches[sels[k]], queried |-> SubSeq(sels, 1, k)]
         ELSE QueryAllFrom(matches, sels, k + 1)

RECURSIVE QueryFirstFrom(_, _, _)
\* for (const selector of sels) { element = querySelector(selector);
\*   if (element) { found = element; break; } }   (found is one element)
QueryFirstFrom(matches, sels, k) ==
    IF k > Len(sels) THEN [elements |-> <<>>, queried |-> sels]
    ELSE IF Len(matches[sels[k]]) > 0
         THEN [elements |-> <<matches[sels[k]][1]>>, queried |-> SubSeq(sels, 1, k)]
         ELSE QueryFirstFrom(matches, sels, k + 1)

RECURSIVE QueryAllNoBreak(_, _, _)
QueryAllNoBreak(matches, sels, k) ==
    IF k > Len(sels) THEN [elements |-> <<>>, queried |-> sels]
    ELSE LET rest == QueryAllNoBreak(matches, sels, k + 1)
         IN IF Len(matches[sels[k]]) > 0 /\ rest.elements = <<>>
            THEN [elements |-> matches[sels[k]], queried |-> sels]
            ELSE rest

articleElementsLastMatch(matches) == QueryAllNoBreak(matches, selectors, 1)

\* The listing cascade of parseMeduzaWebsite.
articleElements(matches) == QueryAllFrom(matches, selectors, 1)

\* The content cascade of parseMeduzaWebsite.
contentElement(matches) == QueryFirstFrom(matches, contentSelectors, 1)

\* The menu cascade of parseMeduzaCategories.
categoryElements(matches) == QueryAllFrom(matches, menuSelectors, 1)

CascadeOf(kind) ==
    CASE kind = "listing" -> selectors
      [] kind = "content" -> contentSelectors
      [] kind = "menu" -> menuSelectors

\* Elements of a page are numbered in document order; a selector matches a
\* set of them.
SortedSeqs(n) ==
    { s \in SeqsUpTo(1..n, n) : \A a, b \in 1..Len(s) : a < b => s[a] < s[b] }

InitCascade ==
    /\ prog = "cascade"
    /\ pc = "query"
    /\ maxArticles = 1
    /\ maxRetriesArg = maxRetries
    /\ categories = <<>>
    /\ \E kind \in {"listing", "content", "menu"} :
         \E m \in [Range(CascadeOf(kind)) -> SortedSeqs(MaxElems)] :
            doc = [kind |-> kind, matches |-> m]
    /\ Idle

\* The cascade loop of the page's kind runs on the page.
RunCascade ==
    /\ prog = "cascade" /\ pc = "query"
    /\ cascade' = CASE doc.kind = "listing" -> articleElements(doc.matches)
                     [] doc.kind = "content" -> contentElement(doc.matches)
                     [] doc.kind = "menu" -> categoryElements(doc.matches)
    /\ pc' = "done"
    /\ UNCHANGED <<inputVars, outVars, retryVars, articles, uniqueArticles, limitedArticles,
                   taskVars, loopVars, browserOpen, result>>

NextCascade == RunCascade

SpecCascade == InitCascade /\ [][NextCascade]_vars

(***************************** C5 *******************************************)
Matching(matches, sels) == {k \in 1..Len(sels) : matches[sels[k]] # <<>>}
FirstMatching(matches, sels) ==
    CHOOSE k \in Matching(matches, sels) : \A m \in Matching(matches, sels) : k <= m

\* The selectors are queried in declared order up to the first one that
\* matches, and no further; the cascade keeps the matches of that selector,
\* or, with firstOnly, the content cascade keeps the first of them.
ShortCircuit(firstOnly) ==
    (prog = "cascade" /\ pc = "done") =>
        LET sels == CascadeOf(doc.kind)
            m == doc.matches
            Kept(ms) == IF firstOnly /\ doc.kind = "content" THEN <<ms[1]>> ELSE ms
        IN IF Matching(m, sels) = {}
           THEN cascade.elements = <<>> /\ cascade.queried = sels
           ELSE LET f == FirstMatching(m, sels)
                IN /\ cascade.queried = SubSeq(sels, 1, f)
                   /\ cascade.elements = Kept(m[sels[f]])

\* C5 as stated: every cascade (listing, content, menu) queries its selectors
\* in declared order, stops at the first selector with a match, and its
\* result is the whole match set of that selector, or empty when none matches.
C5_ResultIsMatchSet == ShortCircuit(FALSE)

\* C5 as amended: every cascade queries its selectors in declared order and
\* stops at the first selector with a match; the result of the listing and
\* menu cascades is the whole match set of that selector, the result of the
\* content cascade is the first element of that match set; when no selector
\* matches the result is empty.
C5_ShortCircuit == ShortCircuit(TRUE)

\* The second listing selector is the first that matches, a later one
\* matches too, and the cascade has run.
C5_Witness ==
    /\ prog = "cascade" /\ pc = "done" /\ doc.kind = "listing"
    /\ doc.matches[selectors[1]] = <<>>
    /\ doc.matches[selectors[2]] = <<1, 2>>
    /\ doc.matches[selectors[4]] = <<2>>
    /\ cascade.elements = <<1, 2>>
    /\ cascade.queried = SubSeq(selectors, 1, 2)

(***************************** Meduza listing extraction ********************)
\* An optional DOM node is a sequence of length 0 or 1.
None == <<>>
Some(x) == <<x>>

LowerChar(c) ==
    CASE c = "A" -> "a" [] c = "B" -> "b" [] c = "N" -> "n" [] c = "O" -> "o"
      [] OTHER -> c

toLowerCase(text) == [k \in 1..Len(text) |-> LowerChar(text[k])]

\* String.prototype.includes
includes(text, part) ==
    \E k \in 0..(Len(text) - Len(part)) : SubSeq(text, k + 1, k + Len(part)) = part

categoryMatchesCaseSensitive(category, selectedCategories) ==
    \/ Len(selectedCategories) = 0
    \/ \E k \in 1..Len(selectedCategories) : includes(category, selectedCategories[k])

\* selectedCategories.length === 0 || selectedCategories.some(c =>
\*   article.category.toLowerCase().includes(c.toLowerCase()))
categoryMatches(category, selectedCategories) ==
    \/ Len(selectedCategories) = 0
    \/ \E k \in 1..Len(selectedCategories) :
          includes(toLowerCase(category), toLowerCase(selectedCategories[k]))

Novosti == <<"N", "o", "v", "o", "s", "t", "i">>
MeduzaUrl(href) == <<"https://meduza.io">> \o href

\* The article object built from one matched element. el.title, el.link,
\* el.closest, el.category, el.date, el.image, el.summary are the optional
\* nodes found by the querySelector / closest calls.
ElementArticle(el) ==
    LET titleElement == IF el.title = None /\ el.link # None
                        THEN Some(el.link[1].text) ELSE el.title
        linkElement == IF el.title # None /\ el.link = None
                       THEN el.closest ELSE el.link
    IN [title |-> IF titleElement # None THEN titleElement[1] ELSE "Bez nazvaniya",
        url |-> IF linkElement # None THEN MeduzaUrl(linkElement[1].href) ELSE <<>>,
        category |-> IF el.category # None THEN el.category[1] ELSE Novosti,
        date |-> IF el.date # None THEN el.date[1] ELSE "",
        imageUrl |-> IF el.image # None THEN el.image[1] ELSE "",
        summary |-> IF el.summary # None THEN el.summary[1] ELSE ""]

\* The body of the for loop over articleElements: a fault while reading the
\* element is caught and logged, the element adds nothing.
ProcessElement(el, selectedCategories) ==
    IF el.fault THEN <<>>
    ELSE LET article == ElementArticle(el)
         IN IF categoryMatches(article.category, selectedCategories)
               /\ article.url # <<>>
            THEN <<article>> ELSE <<>>

RECURSIVE ProcessElements(_, _)
ProcessElements(els, selectedCategories) ==
    IF els = <<>> THEN <<>>
    ELSE ProcessElement(Head(els), selectedCategories)
         \o ProcessElements(Tail(els), selectedCategories)

\* The article object built from one anchor of the fallback.
LinkArticle(link) ==
    [title |-> IF link.text # "" THEN link.text ELSE "Bez nazvaniya",
     url |-> MeduzaUrl(link.href),
     category |-> IF link.category # None THEN link.category[1] ELSE Novosti,
     imageUrl |-> IF link.image # None THEN link.image[1] ELSE ""]

RECURSIVE ProcessLinks(_, _)
ProcessLinks(links, selectedCategories) ==
    IF links = <<>> THEN <<>>
    ELSE LET article == LinkArticle(Head(links))
         IN (IF categoryMatches(article.category, selectedCategories)
             THEN <<article>> ELSE <<>>)
            \o ProcessLinks(Tail(links), selectedCategories)

hrefPatterns == {"news", "feature", "story"}

\* a[href*="/news/"], a[href*="/feature/"], a[href*="/story/"]: the href has
\* one of the patterns as a path segment followed by a slash.
HrefMatches(href) == \E k \in 1..(Len(href) - 1) : href[k] \in hrefPatterns

\* container.querySelectorAll of the anchor selector.
ContainerLinks(container) ==
    LET Match(a) == HrefMatches(a.href)
    IN SelectSeq(container, Match)

WithLinks(containers) ==
    {k \in 1..Len(containers) : Len(ContainerLinks(containers[k])) > 0}

RECURSIVE Flatten(_)
Flatten(ss) == IF ss = <<>> THEN <<>> ELSE Head(ss) \o Flatten(Tail(ss))

FallbackEveryContainer(containers, selectedCategories) ==
    LET links == ContainerLinks(Flatten(containers))
    IN IF \E k \in 1..Len(links) : links[k].fault
       THEN [threw |-> TRUE, articles |-> <<>>]
       ELSE [threw |-> FALSE,
             articles |-> ProcessLinks(links, selectedCategories)]

\* The anchor fallback: the anchors of the first container that has any; a
\* fault while reading an anchor is not caught here.
Fallback(containers, selectedCategories) ==
    IF WithLinks(containers) = {} THEN [threw |-> FALSE, articles |-> <<>>]
    ELSE LET first == CHOOSE k \in WithLinks(containers) :
                          \A m \in WithLinks(containers) : k <= m
             links == ContainerLinks(containers[first])
         IN IF \E k \in 1..Len(links) : links[k].fault
            THEN [threw |-> TRUE, articles |-> <<>>]
            ELSE [threw |-> FALSE,
                  articles |-> ProcessLinks(links, selectedCategories)]

\* The callback given to the listing page.evaluate.
extractListing(page, selectedCategories) ==
    LET c == articleElements(page.matches)
    IN IF Len(c.elements) = 0
       THEN LET f == Fallback(page.containers, selectedCategories)
            IN [cascade |-> c, threw |-> f.threw, articles |-> f.articles]
       ELSE [cascade |-> c, threw |-> FALSE,
             articles |-> ProcessElements(c.elements, selectedCategories)]

(***************************** Meduza inputs ********************************)
Ab == <<"A", "b">>
ba == <<"b", "a">>

A(href, text) == [href |-> href, text |-> text]

Element(title, link, closest, category, fault) ==
    [title |-> title, link |-> link, closest |-> closest, category |-> category,
     date |-> IF fault THEN None ELSE Some("d"),
     image |-> None, summary |-> IF link = None THEN None ELSE Some("s"),
     fault |-> fault]

\* Matched elements: two with the same href, one without any link, one whose
\* title is its link, one whose link is an enclosing anchor, one faulty.
ElementPool ==
    { Element(Some("T1"), Some(A(<<"news", "a">>, "L1")), None, Some(Ab), FALSE),
      Element(Some("T2"), Some(A(<<"news", "a">>, "L2")), None, None, FALSE),
      Element(Some("T1"), None, None, Some(Ab), FALSE),
      Element(None, Some(A(<<"feature", "b">>, "L4")), None, Some(ba), FALSE),
      Element(Some("T2"), None, Some(A(<<"story", "c">>, "L5")), None, FALSE),
      Element(Some("T1"), Some(A(<<"news", "a">>, "L1")), None, Some(Ab), TRUE) }

Link(href, text, category, fault) ==
    [href |-> href, text |-> text, category |-> category, image |-> None,
     fault |-> fault]

\* Anchors of a container: three news anchors (one faulty) and one anchor
\* that leads elsewhere.
LinkPool ==
    { Link(<<"news", "a">>, "T1", Some(Ab), FALSE),
      Link(<<"feature", "b">>, "", None, FALSE),
      Link(<<"story", "c">>, "T2", Some(ba), TRUE),
      Link(<<"live", "d">>, "T2", Some(Ab), FALSE) }

Terms == { <<"a", "B">>, <<"n", "O">> }

NoMatches == [sel \in Range(selectors) |-> <<>>]

RECURSIVE Total(_)
Total(ss) == IF ss = <<>> THEN 0 ELSE Len(Head(ss)) + Total(Tail(ss))

ContainerLists ==
    { cs \in SeqsUpTo(SeqsUpTo(LinkPool, MaxLinks), MaxContainers) :
        Total(cs) <= MaxLinks }

\* Listing pages: one listing selector matches (with or without anchors in a
\* container besides), or none does and the containers vary.
ListingPages ==
    { [matches |-> [NoMatches EXCEPT ![sel] = els], containers |-> cs] :
        sel \in Range(selectors),
        els \in SeqsUpTo(ElementPool, MaxMatched) \ {<<>>},
        cs \in {<<>>, << <<Link(<<"news", "a">>, "T1", Some(Ab), FALSE)>> >>} }
    \cup { [matches |-> NoMatches, containers |-> cs] : cs \in ContainerLists }

(***************************** parseMeduzaWebsite ***************************)
\* `throw error` in the outer catch: the finally block starts browser.close().
Throw ==
    /\ result' = <<>>
    /\ pc' = "closingThrow"

\* The detail page.evaluate: the content cascade and the other fields.
meduzaDetails(page) ==
    LET c == contentElement(page.matches)
    IN [content |-> IF c.elements # <<>> THEN c.elements[1] ELSE "",
        author |-> IF page.author # None THEN page.author[1] ELSE "Meduza.io",
        tags |-> page.tags,
        hasVideo |-> page.hasVideo]

NoContent == [sel \in Range(contentSelectors) |-> <<>>]

\* Article pages: texts of the elements each content selector matches.
ArticlePages ==
    { [matches |-> [NoContent EXCEPT ![".RichBlock"] = <<"text1", "text2">>,
                                     !["article"] = <<"text3">>],
       author |-> Some("Avtor"), tags |-> <<"tag">>, hasVideo |-> TRUE],
      [matches |-> NoContent, author |-> None, tags |-> <<>>, hasVideo |-> FALSE] }

\* The details alone, the stub left out of the object literal.
MergeDetailsOnly(article, details) == details

\* {...article, ...details}
Merge(article, details) == details @@ article

RECURSIVE LoopFrom(_, _, _)
\* The head of the detail loop from index i on: a stub without url is pushed
\* as it is (`continue`), up to the first stub with a url or the end.
LoopFrom(lim, i, detailed) ==
    IF i > Len(lim) THEN [idx |-> i, detailedArticles |-> detailed]
    ELSE IF lim[i].url = <<>> THEN LoopFrom(lim, i + 1, Append(detailed, lim[i]))
    ELSE [idx |-> i, detailedArticles |-> detailed]

\* Continue the loop over lim at index i with `detailed` pushed so far; after the
\* last stub, `return detailedArticles`.
LoopContinue(lim, i, detailed) ==
    LET l == LoopFrom(lim, i, detailed)
    IN /\ idx' = l.idx
       /\ detailedArticles' = l.detailedArticles
       /\ IF l.idx > Len(lim)
          THEN Return(l.detailedArticles)
          ELSE pc' = "goto" /\ result' = result

InitMeduza ==
    /\ prog = "meduza"
    /\ pc = "launch"
    /\ maxArticles \in 1..MaxArticlesArg
    /\ maxRetriesArg = maxRetries
    /\ categories \in {<<>>, << <<"a", "B">> >>}
    /\ doc \in { [matches |-> [NoMatches EXCEPT ![".NewsBlock"] = els],
                   containers |-> <<>>] :
                     els \in SeqsUpTo({e \in ElementPool : e.link # None},
                                      MaxFlowAnchors) }
             \cup { [matches |-> NoMatches, containers |-> <<ls>>] :
                     ls \in SeqsUpTo(LinkPool, MaxFlowAnchors) }
    /\ Idle

\* puppeteer.launch, before the try block.
MedLaunch ==
    /\ prog = "meduza" /\ pc = "launch"
    /\ \E ok \in BOOLEAN :
         IF ok THEN pc' = "newPage" /\ browserOpen' = TRUE
         ELSE pc' = "threw" /\ browserOpen' = FALSE
    /\ UNCHANGED <<inputVars, outVars, retryVars, listingVars, taskVars, loopVars, result>>

\* browser.newPage, setUserAgent, page.goto of the listing, the delay, the
\* screenshot and the debug HTML.
MedOpenPage ==
    /\ prog = "meduza" /\ pc = "newPage"
    /\ \E ok \in BOOLEAN :
         IF ok THEN pc' = "evaluate" /\ result' = result
         ELSE Throw
    /\ UNCHANGED <<inputVars, outVars, retryVars, listingVars, taskVars, loopVars, browserOpen>>

\* The listing page.evaluate, then synchronously limitedArticles and the
\* head of the detail loop.
MedEvaluate ==
    /\ prog = "meduza" /\ pc = "evaluate"
    /\ \E ok \in BOOLEAN :
         LET x == extractListing(doc, categories)
         IN IF ok /\ ~x.threw
            THEN /\ cascade' = x.cascade
                 /\ articles' = x.articles
                 /\ limitedArticles' = slice(x.articles, maxArticles)
                 /\ LoopContinue(slice(x.articles, maxArticles), 1, <<>>)
            ELSE /\ cascade' = IF ok THEN x.cascade ELSE cascade
                 /\ Throw
                 /\ UNCHANGED <<articles, limitedArticles, loopVars>>
    /\ UNCHANGED <<inputVars, outVars, retryVars, uniqueArticles, taskVars, browserOpen>>

\* page.goto(article.url) of the detail loop; on an error the catch block
\* pushes the stub and the loop goes on.
MedArticleGoto ==
    /\ prog = "meduza" /\ pc = "goto"
    /\ \E ok \in BOOLEAN :
         IF ok
         THEN pc' = "detail" /\ UNCHANGED <<loopVars, result>>
         ELSE LoopContinue(limitedArticles, idx + 1,
                           Append(detailedArticles, limitedArticles[idx]))
    /\ UNCHANGED <<inputVars, outVars, retryVars, listingVars, taskVars, browserOpen>>

\* The detail page.evaluate, the push of the merged record and the delay;
\* on an error the catch block pushes the stub.
MedArticleEvaluate ==
    /\ prog = "meduza" /\ pc = "detail"
    /\ \E ok \in BOOLEAN, page \in ArticlePages :
         LoopContinue(limitedArticles, idx + 1,
                      Append(detailedArticles,
                             IF ok THEN Merge(limitedArticles[idx], meduzaDetails(page))
                             ELSE limitedArticles[idx]))
    /\ UNCHANGED <<inputVars, outVars, retryVars, listingVars, taskVars, browserOpen>>

NextMeduza ==
    \/ MedLaunch
    \/ MedOpenPage
    \/ MedEvaluate
    \/ MedArticleGoto
    \/ MedArticleEvaluate
    \/ BrowserClosed

SpecMeduza == InitMeduza /\ [][NextMeduza]_vars

(***************************** whole runs ***********************************)
Init == InitRBC \/ InitMeduza

Next ==
    \/ RbcLaunch
    \/ RbcOpenPage
    \/ RbcGoto
    \/ RbcEvaluate
    \/ \E i \in 1..(MaxFlowAnchors + 1) : TaskStep(i)
    \/ RbcJoinResolved
    \/ RbcJoinRejected
    \/ MedLaunch
    \/ MedOpenPage
    \/ MedEvaluate
    \/ MedArticleGoto
    \/ MedArticleEvaluate
    \/ BrowserClosed

Spec == Init /\ [][Next]_vars

(***************************** listing extraction alone *********************)
\* parseMeduzaWebsite with the listing page loaded, about to evaluate it.
InitMeduzaListing ==
    /\ prog = "meduza"
    /\ pc = "evaluate"
    /\ maxArticles = MaxArticlesArg
    /\ maxRetriesArg = maxRetries
    /\ categories \in SeqsUpTo(Terms, MaxTerms)
    /\ doc \in ListingPages
    /\ nav = RetryStart /\ fnLog = <<>>
    /\ browserOpen = TRUE
    /\ NothingYet

\* parseRBCWebsite with the listing page loaded at the first attempt, about
\* to evaluate it.
InitRbcListing ==
    /\ prog = "rbc"
    /\ pc = "evaluate"
    /\ maxArticles \in 1..MaxArticlesArg
    /\ maxRetriesArg = maxRetries
    /\ categories = <<>>
    /\ doc \in SeqsUpTo(Anchors, MaxAnchors)
    /\ nav = tryWithRetry(RetryStart, FnOk("response"), maxRetries)
    /\ fnLog = <<FnOk("response")>>
    /\ browserOpen = TRUE
    /\ NothingYet

InitListing == InitMeduzaListing \/ InitRbcListing

NextListing ==
    \/ MedEvaluate
    \/ RbcEvaluate

SpecListing == InitListing /\ [][NextListing]_vars

(***************************** listing properties ***************************)
\* The listing callback of parseMeduzaWebsite ran (its cascade queried the page).
ExtractionRan == prog = "meduza" /\ cascade.queried # <<>>

\* The listing callback of parseMeduzaWebsite returned its stubs.
ListingReturned == ExtractionRan /\ pc \in {"goto", "detail", "closing", "done"}

\* The anchors the fallback looks at: those matching a path pattern inside the
\* first container that has such anchors.
FallbackAnchors ==
    LET cs == doc.containers
        Matching1(a) == \E k \in 1..(Len(a.href) - 1) :
                           a.href[k] \in {"news", "feature", "story"}
        has == {k \in 1..Len(cs) : \E j \in 1..Len(cs[k]) : Matching1(cs[k][j])}
    IN IF has = {} THEN <<>>
       ELSE SelectSeq(cs[CHOOSE k \in has : \A m \in has : k <= m], Matching1)

ContainsIgnoringCase(text, term) ==
    \E i \in 1..(Len(text) + 1) : \E j \in (i - 1)..Len(text) :
        SubSeq(toLowerCase(text), i, j) = toLowerCase(term)

\* The filter as the documentation states it.
KeptByFilter(stub) ==
    \/ categories = <<>>
    \/ \E term \in Range(categories) : ContainsIgnoringCase(stub.category, term)

AnchorStubs == [k \in 1..Len(FallbackAnchors) |-> LinkArticle(FallbackAnchors[k])]

ListingDone ==
    \/ ListingReturned
    \/ prog = "rbc" /\ pc = "join"

RECURSIVE FirstSeen(_)
\* The urls of a sequence, each at its first occurrence.
FirstSeen(us) ==
    IF us = <<>> THEN <<>>
    ELSE LET front == FirstSeen(SubSeq(us, 1, Len(us) - 1))
         IN IF us[Len(us)] \in Range(front) THEN front
            ELSE Append(front, us[Len(us)])

UrlsOf(arts) == [k \in 1..Len(arts) |-> arts[k].url]

\* C7: the stubs handed to the detail stage have pairwise distinct urls, in
\* the order in which the urls were first seen, in both programs.
C7_NoDuplicateUrls ==
    ListingDone =>
        /\ \A i, j \in 1..Len(limitedArticles) :
              i # j => limitedArticles[i].url # limitedArticles[j].url
        /\ UrlsOf(limitedArticles)
              = SubSeq(FirstSeen(UrlsOf(articles)), 1, Len(limitedArticles))

\* The part of C7 about parseRBCWebsite alone.
RbcNoDuplicateUrls == prog = "rbc" => C7_NoDuplicateUrls

\* The anchors of the RBC listing with url u and a title.
TitledAt(u) == {k \in 1..Len(doc) : doc[k].url = u /\ doc[k].title # ""}

\* The listing callback of parseRBCWebsite returned and the stubs were
\* deduplicated.
RbcListingDone == prog = "rbc" /\ pc = "join"

\* C8 as stated: the stub kept for a url carries the title of the first
\* anchor with that url.
C8_FirstSeenTitle ==
    RbcListingDone =>
        \A k \in 1..Len(uniqueArticles) :
            LET at == TitledAt(uniqueArticles[k].url)
            IN uniqueArticles[k].title
                  = doc[CHOOSE i \in at : \A m \in at : i <= m].title

\* C8: the stub kept for a url stands where the url was first seen and
\* carries the title of the last titled anchor with that url.
C8_LastSeenTitle ==
    RbcListingDone =>
        /\ UrlsOf(uniqueArticles) = FirstSeen(UrlsOf(rbcListing(doc)))
        /\ \A k \in 1..Len(uniqueArticles) :
              LET at == TitledAt(uniqueArticles[k].url)
              IN uniqueArticles[k].title
                    = doc[CHOOSE i \in at : \A m \in at : i >= m].title

\* Two anchors with one url and different titles, another url between them.
C8_Witness ==
    /\ RbcListingDone
    /\ Len(doc) = 3
    /\ doc[1].url = doc[3].url /\ doc[2].url # doc[1].url
    /\ doc[1].title = "T1" /\ doc[2].title = "T1" /\ doc[3].title = "T2"
    /\ Len(uniqueArticles) = 2
    /\ uniqueArticles[1].url = doc[1].url
    /\ uniqueArticles[1].title = "T2"

\* The candidate stubs of the Meduza listing: one per matched element that
\* could be read and has a url, or one per fallback anchor.
Candidates ==
    IF Matching(doc.matches, selectors) = {} THEN AnchorStubs
    ELSE LET els == doc.matches[selectors[FirstMatching(doc.matches, selectors)]]
             Usable(el) == ~el.fault /\ ElementArticle(el).url # <<>>
             usable == SelectSeq(els, Usable)
         IN [k \in 1..Len(usable) |-> ElementArticle(usable[k])]

\* C9: the listing extraction of parseMeduzaWebsite keeps a candidate stub iff
\* the filter is empty or the stub's category, lower-cased, contains a
\* lower-cased term of the filter, on the selector path and on the fallback.
C9_CategoryFilter ==
    ListingReturned => articles = SelectSeq(Candidates, KeptByFilter)

\* A non-empty filter keeps one candidate and removes another, on each path.
C9_Witness ==
    /\ ListingReturned
    /\ categories # <<>>
    /\ Len(Candidates) = 2
    /\ Len(articles) = 1
    /\ Matching(doc.matches, selectors) # {}
    /\ articles[1].category = Ab

C9_WitnessFallback ==
    /\ ListingReturned
    /\ categories # <<>>
    /\ Len(Candidates) = 2
    /\ Len(articles) = 1
    /\ Matching(doc.matches, selectors) = {}

\* The stubs discovered by the listing.
Discovered == IF prog = "rbc" THEN uniqueArticles ELSE articles

\* C10: the detail stage processes the prefix of length min(maxArticles,
\* discovered) of the discovered stubs; the result has at most maxArticles
\* records and at most maxArticles detail fetches are started.
C10_PrefixTruncation ==
    /\ limitedArticles = SubSeq(Discovered, 1, Min(maxArticles, Len(Discovered)))
    /\ Len(result) <= maxArticles
    /\ Len(tasks) <= maxArticles
    /\ Len(detailedArticles) <= maxArticles
    /\ pc \in {"goto", "detail"} => idx <= maxArticles

\* More stubs were discovered than maxArticles and the run returned.
C10_Witness ==
    /\ pc = "done"
    /\ Len(Discovered) > maxArticles
    /\ Len(result) = maxArticles

C10_WitnessMeduza == C10_Witness /\ prog = "meduza"

(***************************** getCategory alone ****************************)
Segments == {"politics", "economics", "society", "rbcfreenews", "finances"}

InitCategory ==
    /\ prog = "getCategory"
    /\ pc = "call"
    /\ maxArticles = 1
    /\ maxRetriesArg = maxRetries
    /\ categories = <<>>
    /\ doc \in SeqsUpTo(Segments, MaxSegments)
    /\ Idle

\* getCategory(url) is called and returns.
CallGetCategory ==
    /\ prog = "getCategory" /\ pc = "call"
    /\ result' = getCategory(doc)
    /\ pc' = "done"
    /\ UNCHANGED <<inputVars, outVars, retryVars, listingVars, taskVars, loopVars, browserOpen>>

NextCategory == CallGetCategory

SpecCategory == InitCategory /\ [][NextCategory]_vars

\* The rules in their documented order.
categoryRules ==
    << <<"politics", "Politika">>, <<"economics", "Ekonomika">>,
       <<"society", "Obshchestvo">>, <<"rbcfreenews", "Srochnye novosti">> >>

\* The rules whose path substring /seg/ occurs in the url.
RulesOccurring(url) ==
    {r \in 1..Len(categoryRules) :
        \E k \in 1..Len(url) : k < Len(url) /\ url[k] = categoryRules[r][1]}

\* C11: getCategory returns, for every url, the label of the first rule in
\* the order politics, economics, society, rbcfreenews whose path substring
\* occurs in the url, and the default label when none occurs.
C11_FirstRuleWins ==
    (prog = "getCategory" /\ pc = "done") =>
        LET occ == RulesOccurring(doc)
        IN IF occ = {} THEN result = "Novosti"
           ELSE result = categoryRules[CHOOSE r \in occ : \A q \in occ : r <= q][2]

\* A url in which /economics/ comes before /politics/: the politics rule wins.
C11_Witness ==
    /\ prog = "getCategory" /\ pc = "done"
    /\ doc = <<"economics", "politics", "society">>
    /\ result = "Politika"

(***************************** records of parseRBCWebsite *******************)
\* parseRBCWebsite returned the records of its tasks.
RecordsReturned == prog = "rbc" /\ Returned /\ result # <<>>

HasError(r) == "error" \in DOMAIN r

\* The navigation and the evaluation of task k both succeeded: the task
\* holds the details, or it lost them to a failure of the close that follows
\* the evaluation.
FetchSucceeded(k) ==
    \/ tasks[k].details # NoDetails
    \/ tasks[k].error = Err("close", 0)

\* C12: a returned record carries `error` only when its detail fetch failed
\* and then has empty content; a record built after a successful navigation
\* and evaluation never carries `error`.
C12_ErrorOnlyOnFetchFailure ==
    RecordsReturned =>
        \A k \in 1..Len(result) :
            /\ HasError(result[k]) =>
                  /\ result[k].content = <<>>
                  /\ tasks[k].error.op \in {"goto", "evaluate"}
            /\ FetchSucceeded(k) => ~HasError(result[k])

\* The part of C12 about the content of a record with `error`.
ErrorImpliesEmptyContent ==
    RecordsReturned =>
        \A k \in 1..Len(result) : HasError(result[k]) => result[k].content = <<>>

(***************************** serializers alone ****************************)
\* Records with different key sets and key orders, with values of every type
\* the serializers tell apart, and with the characters they treat specially.
ObjectPool ==
    { << <<"title", JsStr(<<"T1">>)>>,
         <<"content", JsStr(<<"a", Quote, ",", "b">>)>>,
         <<"tags", JsArr(<<JsStr(<<"x">>), JsStr(<<"y">>)>>)>>,
         <<"sentiment", JsObj(<< <<"positive", JsNum(2)>>,
                                 <<"sentiment", JsStr(<<"positive">>)>> >>)>>,
         <<"hasVideo", JsBool(TRUE)>> >>,
      << <<"title", JsStr(<<"T2">>)>>,
         <<"content", JsStr(<<>>)>>,
         <<"tags", JsArr(<<>>)>>,
         <<"hasVideo", JsBool(FALSE)>>,
         <<"error", JsStr(<<"timeout">>)>> >>,
      << <<"error", JsStr(<<"line1", "\n", "line2">>)>>,
         <<"title", JsStr(<<"T1">>)>> >>,
      << <<"title", JsNull>>, <<"publishedAt", JsUndefined>> >>,
      << <<"url", JsStr(<<"news", "a">>)>> >>,
      << >> }

Serializers == {"meduza.saveToJson", "meduza.saveToCsv", "rbc.saveToJson", "rbc.saveToCsv"}

InitSerialize ==
    /\ prog = "serialize"
    /\ pc = "call"
    /\ maxArticles = 1
    /\ maxRetriesArg = maxRetries
    /\ categories = <<>>
    /\ doc \in [fn : Serializers, data : SeqsUpTo(ObjectPool, MaxRecords)]
    /\ Idle

\* The serializer doc.fn is called with doc.data and the file name "out".
Serialize ==
    /\ prog = "serialize" /\ pc = "call"
    /\ LET e == CASE doc.fn = "meduza.saveToJson" ->
                       meduzaSaveToJson(doc.data, "out", files, console)
                  [] doc.fn = "meduza.saveToCsv" ->
                       meduzaSaveToCsv(doc.data, "out", files, console)
                  [] doc.fn = "rbc.saveToJson" ->
                       rbcSaveToJson(doc.data, "out", files, console)
                  [] doc.fn = "rbc.saveToCsv" ->
                       rbcSaveToCsv(doc.data, "out", files, console)
       IN files' = e.files /\ console' = e.console
    /\ pc' = "done"
    /\ UNCHANGED <<inputVars, retryVars, listingVars, taskVars, loopVars,
                   browserOpen, result>>

NextSerialize == Serialize

SpecSerialize == InitSerialize /\ [][NextSerialize]_vars

(***************************** reading a CSV file ***************************)
\* The positions of chars that hold the separator outside double quotes,
\* that is, after an even number of quote characters.
SeparatorsOutsideQuotes(chars, sep) ==
    {i \in 1..Len(chars) :
        /\ chars[i] = sep
        /\ Cardinality({k \in 1..(i - 1) : chars[k] = Quote}) % 2 = 0}

\* The pieces of chars between those separators.
SplitOutsideQuotes(chars, sep) ==
    LET at == SeparatorsOutsideQuotes(chars, sep)
        Nth(n) == IF n = 0 THEN 0
                  ELSE IF n > Cardinality(at) THEN Len(chars) + 1
                  ELSE CHOOSE p \in at : Cardinality({q \in at : q < p}) = n - 1
    IN [n \in 1..(Cardinality(at) + 1) |-> SubSeq(chars, Nth(n - 1) + 1, Nth(n) - 1)]

CsvLines(content) == SplitOutsideQuotes(content, "\n")
\* The empty line is the row of a file without columns.
CsvFields(line) ==
    IF line = <<>> THEN <<>> ELSE SplitOutsideQuotes(line, ",")

\* The file written by the RBC saveToCsv for a non-empty record sequence.
RbcCsvWritten ==
    /\ prog = "serialize" /\ pc = "done"
    /\ doc.fn = "rbc.saveToCsv" /\ doc.data # <<>>

\* The header columns and the data rows of that file, after the byte-order mark.
CsvHeader == CsvFields(CsvLines(Tail(files["out"]))[1])
CsvRows == Tail(CsvLines(Tail(files["out"])))

KeysOf(data) == UNION {Range(ObjectKeys(data[k])) : k \in 1..Len(data)}

(***************************** C13, C14, C15 ********************************)
\* C13: every key present in any record given to the RBC saveToCsv appears
\* in the CSV header exactly once, also when the records' key sets differ.
C13_HeaderComplete ==
    RbcCsvWritten =>
        \A key \in KeysOf(doc.data) :
            Cardinality({j \in 1..Len(CsvHeader) : CsvHeader[j] = <<key>>}) = 1

\* A full record with `sentiment` next to a degraded record with `error`.
C13_Witness ==
    /\ RbcCsvWritten
    /\ Len(doc.data) = 2
    /\ "sentiment" \in KeysOf(<<doc.data[1]>>) /\ "error" \notin KeysOf(<<doc.data[1]>>)
    /\ "error" \in KeysOf(<<doc.data[2]>>) /\ "sentiment" \notin KeysOf(<<doc.data[2]>>)
    /\ Len(CsvHeader) = 6

\* The keys of the records in alphabetical order.
sortedKeys == <<"content", "error", "hasVideo", "publishedAt", "sentiment", "tags",
                "title", "url">>
KeyRank(key) == CHOOSE k \in 1..Len(sortedKeys) : sortedKeys[k] = key

RECURSIVE AllKeysInOrder(_)
\* The keys of all records, record after record, each record's in its own order.
AllKeysInOrder(data) ==
    IF data = <<>> THEN <<>>
    ELSE ObjectKeys(Head(data)) \o AllKeysInOrder(Tail(data))

\* C14 as stated: the header lists the union of the keys in sorted order.
C14_HeaderSorted ==
    RbcCsvWritten =>
        \A i, j \in 1..Len(CsvHeader) :
            i < j => KeyRank(CsvHeader[i][1]) < KeyRank(CsvHeader[j][1])

\* C14: the header lists the union of the records' keys in the order in
\* which the keys are first met, record after record.
C14_HeaderFirstSeen ==
    RbcCsvWritten =>
        LET keys == FirstSeen(AllKeysInOrder(doc.data))
        IN CsvHeader = [j \in 1..Len(keys) |-> <<keys[j]>>]

\* Two records with the same two keys in opposite orders: the header follows
\* the first record and is not sorted.
C14_Witness ==
    /\ RbcCsvWritten
    /\ Len(doc.data) = 2
    /\ ObjectKeys(doc.data[1]) = <<"title", "content", "tags", "hasVideo", "error">>
    /\ ObjectKeys(doc.data[2]) = <<"error", "title">>
    /\ CsvHeader = << <<"title">>, <<"content">>, <<"tags">>, <<"hasVideo">>, <<"error">> >>

\* C15: every data row of the RBC CSV has one field per header column, field
\* j of the row of record r renders r's value for header key j, and a key
\* that r lacks renders as the empty quoted string.
C15_RowsAligned ==
    RbcCsvWritten =>
        /\ Len(CsvRows) = Len(doc.data)
        /\ \A r \in 1..Len(doc.data) :
              LET fields == CsvFields(CsvRows[r])
              IN /\ Len(fields) = Len(CsvHeader)
                 /\ \A j \in 1..Len(fields) :
                       LET key == CsvHeader[j][1]
                       IN fields[j] = IF key \in KeysOf(<<doc.data[r]>>)
                                      THEN rbcRender(Get(doc.data[r], key))
                                      ELSE <<Quote, Quote>>

\* The second record lacks keys of the first and brings one of its own; the
\* first record has a value with a comma and a quote.
C15_Witness ==
    /\ RbcCsvWritten
    /\ Len(doc.data) = 2
    /\ Len(CsvHeader) = 6
    /\ CsvFields(CsvRows[1])[2] = <<Quote, "a", Quote, Quote, ",", "b", Quote>>
    /\ CsvFields(CsvRows[1])[6] = <<Quote, Quote>>
    /\ CsvFields(CsvRows[2])[4] = <<Quote, Quote>>
    /\ CsvFields(CsvRows[2])[6] = <<Quote, "timeout", Quote>>

(***************************** C16 ******************************************)
\* A serializer was called with zero records.
CalledWithNothing == prog = "serialize" /\ pc = "done" /\ doc.data = <<>>

NothingToSave ==
    {"Net dannykh dlya sokhraneniya v JSON", "Net dannykh dlya sokhraneniya v CSV"}

\* C16: each of the four serializers, called with zero records, writes no
\* file and only reports that there is nothing to serialize.
C16_EmptyIsNoOp ==
    CalledWithNothing =>
        /\ files = <<>>
        /\ Len(console) = 1 /\ console[1] \in NothingToSave

\* The part of C16 about the serializers other than the Meduza saveToJson.
GuardedSerializersNoOp ==
    (CalledWithNothing /\ doc.fn # "meduza.saveToJson") =>
        /\ files = <<>>
        /\ Len(console) = 1 /\ console[1] \in NothingToSave

(***************************** getTextSentiment alone ***********************)
\* Words: of the positive lexicon (also in capitals), of the negative
\* lexicon, of neither, and one that contains a word of each.
Words == { <<"rost">>, <<"ROST">>, <<"krizis">>, <<"dom">>, <<"rost", "krizis">> }

InitSentiment ==
    /\ prog = "getTextSentiment"
    /\ pc = "call"
    /\ maxArticles = 1
    /\ maxRetriesArg = maxRetries
    /\ categories = <<>>
    /\ doc \in SeqsUpTo(Words, MaxWords)
    /\ Idle

\* getTextSentiment(text) is called and returns.
CallGetTextSentiment ==
    /\ prog = "getTextSentiment" /\ pc = "call"
    /\ result' = getTextSentiment(doc)
    /\ pc' = "done"
    /\ UNCHANGED <<inputVars, outVars, retryVars, listingVars, taskVars, loopVars,
                   browserOpen>>

NextSentiment == CallGetTextSentiment

SpecSentiment == InitSentiment /\ [][NextSentiment]_vars

\* The tokens of the content that contain, lower-cased, a word of the lexicon.
TokensWith(lexicon) ==
    {k \in 1..Len(doc) : \E p \in 1..Len(doc[k]) : LowerPart(doc[k][p]) \in lexicon}

\* Splitting on white space gives one (empty) token for the empty content.
TokenCount == IF doc = <<>> THEN 1 ELSE Len(doc)

\* C19: getTextSentiment counts the tokens of the lower-cased content that
\* contain a positive word and those that contain a negative word (a token
\* may count in both), neutral is the token count less both, and the label
\* follows the larger count; "rost rost krizis" gives 2, 1, 0, positive.
C19_SentimentCounts ==
    (prog = "getTextSentiment" /\ pc = "done") =>
        LET pos == Cardinality(TokensWith(positiveWords))
            neg == Cardinality(TokensWith(negativeWords))
        IN /\ result.positive = pos
           /\ result.negative = neg
           /\ result.neutral = TokenCount - pos - neg
           /\ result.sentiment = (IF pos > neg THEN "positive"
                                  ELSE IF neg > pos THEN "negative" ELSE "neutral")
           /\ doc = << <<"rost">>, <<"rost">>, <<"krizis">> >> =>
                 result = [positive |-> 2, negative |-> 1, neutral |-> 0,
                           sentiment |-> "positive"]

C19_Witness ==
    /\ prog = "getTextSentiment" /\ pc = "done"
    /\ doc = << <<"rost">>, <<"rost">>, <<"krizis">> >>
    /\ result = [positive |-> 2, negative |-> 1, neutral |-> 0, sentiment |-> "positive"]

(***************************** runParser: what a run reports ****************)
RunParserFinished == prog = "rbc" /\ pc = "done"

ReportedSuccess == "Parsing zavershen uspeshno" \in Range(console)
ReportedFailure == "Ne udalos poluchit stati" \in Range(console)

\* The listing page was loaded and its evaluation returned the stubs.
ListingAcquired == "Naideno unikalnykh statei" \in Range(console)

\* C17: runParser reports success whenever at least one record was produced,
\* degraded or not, and reports failure only if the listing page could not
\* be acquired: a run whose listing was acquired with zero stubs is not
\* reported as a failure.
C17_ExitReport ==
    RunParserFinished =>
        /\ Len(result) > 0 => (ReportedSuccess /\ ~ReportedFailure)
        /\ ReportedFailure => ~ListingAcquired

\* The half of C17 that the code keeps: records, degraded or not, are
\* reported as a success.
SuccessWheneverRecords ==
    RunParserFinished => (Len(result) > 0 <=> ReportedSuccess)

OutputFiles == {"rbc-articles.json", "rbc_news_articles.csv", "parsing-stats.json"}

NavigationFailed == prog = "rbc" /\ nav.status = "thrown"

\* C18: when the listing navigation fails on every attempt, exactly
\* config.maxRetries attempts were made, no article page was opened and no
\* task started, parseRBCWebsite returns the empty sequence once the browser
\* is closed, and runParser writes no JSON, CSV or statistics file.
C18_ListingFailureAbandons ==
    NavigationFailed =>
        /\ Len(fnLog) = maxRetries
        /\ \A k \in 1..Len(fnLog) : ~fnLog[k].ok
        /\ tasks = <<>> /\ pagesOpen = {} /\ progress = 0
        /\ result = <<>>
        /\ pc \in {"closing", "done"}
        /\ pc = "closing" => browserOpen
        /\ pc = "done" => (~browserOpen /\ ReportedFailure)
        /\ OutputFiles \cap DOMAIN files = {}

C18_Witness ==
    /\ NavigationFailed /\ pc = "done"
    /\ Len(fnLog) = maxRetries
    /\ "error-log.txt" \in DOMAIN files
    /\ "Brauzer zakryt" \in Range(console)

(***************************** failed-articles.json *************************)
FailedFile == "failed-articles.json"

\* The records of rs at the positions in I, in the order of rs.
Pick(rs, I) ==
    LET nth(j) == CHOOSE k \in I : Cardinality({m \in I : m < k}) = j - 1
    IN [j \in 1..Cardinality(I) |-> rs[nth(j)]]

WithoutContent == {k \in 1..Len(result) : result[k].content = <<>>}

\* C20 as the code has it: failed-articles.json is written exactly when a
\* returned record has empty content, and lists the records with empty
\* content in their order: every degraded record, and every record whose
\* detail fetch succeeded but found no text, which carries no `error`.
C20_ListsRecordsWithoutContent ==
    (prog = "rbc" /\ Returned) =>
        /\ FailedFile \in DOMAIN files <=> WithoutContent # {}
        /\ FailedFile \in DOMAIN files =>
               files[FailedFile] = RecordsJson(Pick(result, WithoutContent))
        /\ \A k \in 1..Len(result) : HasError(result[k]) => k \in WithoutContent

\* C20 as stated: failed-articles.json lists only degraded records, each
\* with an `error` field and empty content, never a record whose detail
\* fetch succeeded.
C20_ListsOnlyDegraded ==
    (prog = "rbc" /\ FailedFile \in DOMAIN files) =>
        \E I \in SUBSET (1..Len(result)) :
            /\ files[FailedFile] = RecordsJson(Pick(result, I))
            /\ \A k \in I : /\ HasError(result[k])
                            /\ result[k].content = <<>>
                            /\ ~FetchSucceeded(k)

C20_Witness ==
    /\ prog = "rbc" /\ pc = "done" /\ Len(result) = 2
    /\ FailedFile \in DOMAIN files
    /\ \E k \in WithoutContent : ~HasError(result[k]) /\ FetchSucceeded(k)
    /\ \E k \in WithoutContent : HasError(result[k])

(***************************** the progress counter *************************)
Fulfilled == {k \in DOMAIN tasks : tasks[k].pc = "fulfilled"}

\* Promise.all fulfilled and parseRBCWebsite went on after the join.
JoinFulfilled == prog = "rbc" /\ Returned /\ TasksStarted /\ AllFulfilled

\* C21: the progress counter is incremented exactly once per task that
\* completes, on the success path or on the failure path and never on both:
\* at every moment it counts the tasks that have yielded their record, and
\* when the join completes it equals the number of stubs in limitedArticles,
\* under every interleaving of the tasks.
C21_ProgressCountsCompletions ==
    prog = "rbc" =>
        /\ progress = Cardinality(Fulfilled)
        /\ progress = Len(settleOrder)
        /\ \A k \in Fulfilled : Cardinality({j \in 1..Len(settleOrder) : settleOrder[j] = k}) = 1
        /\ JoinFulfilled => progress = Len(limitedArticles)

\* Two tasks, the close of the try block failed for the one that settles
\* first (the failure path), the other took the success path.
C21_Witness ==
    /\ JoinFulfilled /\ pc = "done"
    /\ Len(limitedArticles) = 2 /\ progress = 2
    /\ settleOrder = <<2, 1>>
    /\ tasks[2].error = Err("close", 0) /\ tasks[1].error = NoError

(***************************** termination of the tasks *********************)
TaskIds == 1..MaxArticlesArg

Started(i) == i \in DOMAIN tasks

\* Task i is inside tryWithRetry: attempt - 1 calls of goto were made.
NavigationAttemptsBounded ==
    \A i \in DOMAIN tasks :
        /\ tasks[i].retry.attempt \in 1..maxRetries
        /\ tasks[i].pc # "goto" => tasks[i].retry = RetryStart

\* A task goes through its navigation stage once.
NavigationStageOnce ==
    [][\A i \in DOMAIN tasks :
          (i \in DOMAIN tasks' /\ tasks'[i].pc = "goto") =>
              tasks[i].pc \in {"setUserAgent", "goto"}]_vars

YieldedRecord(i) ==
    /\ Started(i) /\ tasks[i].pc = "fulfilled"
    /\ values[i] \in {FullRecord(limitedArticles[i], tasks[i].details),
                      DegradedRecord(limitedArticles[i], tasks[i].error)}

\* C22: every navigation call returning or failing, every detail-fetch task
\* eventually terminates after at most config.maxRetries navigation
\* attempts, yielding a full or a degraded record with its article page
\* closed; no task retries forever or keeps its page open after finishing.
C22_TasksYieldAndRelease ==
    /\ []NavigationAttemptsBounded
    /\ NavigationStageOnce
    /\ \A i \in TaskIds : Started(i) ~> (YieldedRecord(i) /\ i \notin pagesOpen)
    /\ [](\A i \in DOMAIN tasks : TaskSettled(tasks[i]) => i \notin pagesOpen)

\* What the code keeps of C22: every task settles, within the retry budget,
\* and a task that yields a record has closed its page. TaskRank bounds the
\* awaits a task still has before it: every step of a task lowers it, and a
\* task that has not settled can take a step as soon as the continuation of
\* the join, when it is ready, has run.
TaskRank(t) ==
    CASE t.pc = "newPage" -> maxRetries + 6
      [] t.pc = "setRequestInterception" -> maxRetries + 5
      [] t.pc = "setUserAgent" -> maxRetries + 4
      [] t.pc = "goto" -> maxRetries - t.retry.attempt + 4
      [] t.pc = "evaluate" -> 3
      [] t.pc = "close" -> 2
      [] t.pc = "catchClose" -> 1
      [] OTHER -> 0

TasksAdvance ==
    [][\A i \in DOMAIN tasks :
          i \in DOMAIN tasks' =>
              \/ tasks'[i] = tasks[i]
              \/ TaskRank(tasks'[i]) < TaskRank(tasks[i])]_vars

TasksCanStep ==
    /\ NavigationAttemptsBounded
    /\ \A i \in DOMAIN tasks :
           \/ TaskSettled(tasks[i])
           \/ JoinReady /\ ENABLED (RbcJoinResolved \/ RbcJoinRejected)
           \/ ENABLED TaskStep(i)
    /\ \A i \in DOMAIN tasks : tasks[i].pc = "fulfilled" => i \notin pagesOpen

\* The part of C22 that a finite run refutes: a task that finished with its
\* page still open.
NoPageLeftOpen ==
    \A i \in DOMAIN tasks : TaskSettled(tasks[i]) => i \notin pagesOpen

(***************************** faults of single elements ********************)
Readable(x) == ~x.fault

\* The elements matched by the first listing selector that matches.
MatchedElements ==
    IF Matching(doc.matches, selectors) = {} THEN <<>>
    ELSE doc.matches[selectors[FirstMatching(doc.matches, selectors)]]

\* The stubs of the elements, or of the fallback anchors, that can be read.
ReadableStubs ==
    IF MatchedElements # <<>>
    THEN LET WithUrl(a) == a.url # <<>>
             els == SelectSeq(MatchedElements, Readable)
         IN SelectSeq([k \in 1..Len(els) |-> ElementArticle(els[k])], WithUrl)
    ELSE LET links == SelectSeq(FallbackAnchors, Readable)
         IN [k \in 1..Len(links) |-> LinkArticle(links[k])]

\* The selector path of parseMeduzaWebsite: a faulty element is skipped.
SelectorPathIsolated ==
    (ExtractionRan /\ MatchedElements # <<>>) =>
        /\ ListingReturned
        /\ articles = SelectSeq(ReadableStubs, KeptByFilter)

\* The same for the anchors of the fallback.
FallbackPathIsolated ==
    (ExtractionRan /\ MatchedElements = <<>>) =>
        /\ ListingReturned
        /\ articles = SelectSeq(ReadableStubs, KeptByFilter)

\* The listing callback of parseRBCWebsite threw.
RbcListingThrew ==
    /\ prog = "rbc" /\ "error-log.txt" \in DOMAIN files
    /\ \E e \in files["error-log.txt"] : e.error = "TypeError"

\* The same for the anchors of the RBC listing.
RbcListingIsolated ==
    /\ ~RbcListingThrew
    /\ (prog = "rbc" /\ pc = "join") =>
           articles = rbcListing(SelectSeq(doc, Readable))

\* C23: a fault raised while reading one matched element or anchor is caught
\* for that element only: it is skipped, every other element yields its
\* stub and the extraction returns, on the selector path and the anchor
\* fallback of parseMeduzaWebsite and in the listing of parseRBCWebsite.
C23_ElementFaultIsolated ==
    /\ SelectorPathIsolated
    /\ FallbackPathIsolated
    /\ RbcListingIsolated

\* A faulty element before a readable one on the selector path.
SelectorFaultSkipped ==
    /\ ListingReturned /\ Len(MatchedElements) = 2
    /\ MatchedElements[1].fault
    /\ Len(articles) = 1

(***************************** the Meduza detail loop ***********************)
detailKeys == {"content", "author", "tags", "hasVideo"}

KeepsStubFields(record, stub) ==
    /\ DOMAIN stub \subseteq DOMAIN record
    /\ \A f \in DOMAIN stub : record[f] = stub[f]

\* The record of a failed article: the stub as it was.
IsBareStub(record, stub) == record = stub

\* The record of a successful article: the stub's fields and the details.
IsFullOf(record, stub) ==
    /\ KeepsStubFields(record, stub)
    /\ DOMAIN record = DOMAIN stub \cup detailKeys
    /\ \E page \in ArticlePages :
          \A f \in detailKeys : record[f] = meduzaDetails(page)[f]

RecordOfStub(record, stub) == IsBareStub(record, stub) \/ IsFullOf(record, stub)

\* C24: in the detail loop of parseMeduzaWebsite, whatever articles fail,
\* detailedArticles holds one record per stub processed so far in the order
\* of limitedArticles, a bare stub for a failed article and the stub with
\* the details added for a successful one, and the loop goes on to the last
\* stub: the returned sequence has one record per stub.
C24_OneRecordPerStub ==
    (prog = "meduza" /\ ListingReturned) =>
        /\ Len(detailedArticles) <= Len(limitedArticles)
        /\ \A k \in 1..Len(detailedArticles) :
               RecordOfStub(detailedArticles[k], limitedArticles[k])
        /\ pc \in {"goto", "detail"} =>
               (idx = Len(detailedArticles) + 1 /\ idx <= Len(limitedArticles))
        /\ Returned =>
               (result = detailedArticles /\ Len(result) = Len(limitedArticles))

\* The first article failed and the second was fetched after it.
C24_Witness ==
    /\ prog = "meduza" /\ pc = "done"
    /\ Len(limitedArticles) = 2 /\ Len(result) = 2
    /\ IsBareStub(result[1], limitedArticles[1])
    /\ IsFullOf(result[2], limitedArticles[2])
    /\ result[2].content = "text1"

(***************************** closing the browser **************************)
\* browser.close() of the finally block has been called.
CloseCalled == prog = "rbc" /\ pc \in {"closing", "done"}

InFlight == {k \in DOMAIN tasks : ~TaskSettled(tasks[k])}

\* C25: in parseRBCWebsite browser.close() runs only after every started
\* detail-fetch task has finished, on every path, the one where a task
\* rejects and Promise.all rejects early included.
C25_NoCloseWhileInFlight ==
    /\ CloseCalled => InFlight = {}
    /\ (prog = "rbc" /\ ~browserOpen /\ pc # "launch") => InFlight = {}

\* What the code keeps of C25: when no task rejects, the browser is closed
\* after the last task has finished.
CloseAfterFulfilledJoin ==
    (CloseCalled /\ ~AnyRejected) => InFlight = {}

(***************************** the Meduza CSV ********************************)
\* The keys of a stub of the selector path, of a stub of the fallback, and
\* of the details, each in the order of its object literal.
elementStubKeys == <<"title", "url", "category", "date", "imageUrl", "summary">>
linkStubKeys == <<"title", "url", "category", "imageUrl">>
detailKeysInOrder == <<"content", "author", "tags", "hasVideo">>

\* The value of one field of a record of parseMeduzaWebsite.
MeduzaFieldValue(r, key) ==
    CASE key = "url" -> JsStr(r.url)
      [] key = "category" -> JsStr(r.category)
      [] key = "tags" -> JsArr([k \in 1..Len(r.tags) |-> JsStr(Chars(r.tags[k]))])
      [] key = "hasVideo" -> JsBool(r.hasVideo)
      [] OTHER -> JsStr(Chars(r[key]))

\* A record of parseMeduzaWebsite as a JS object: {...article, ...details}
\* for a fetched article, the stub itself for a failed one.
MeduzaObject(r) ==
    LET keys == (IF "date" \in DOMAIN r THEN elementStubKeys ELSE linkStubKeys)
                \o (IF "content" \in DOMAIN r THEN detailKeysInOrder ELSE <<>>)
    IN [k \in 1..Len(keys) |-> <<keys[k], MeduzaFieldValue(r, keys[k])>>]

\* The records one stub can end as: itself, or merged with the details of
\* an article page.
RecordsOf(stub) ==
    {stub} \cup {Merge(stub, meduzaDetails(page)) : page \in ArticlePages}

ElementStubs ==
    {ElementArticle(el) : el \in {e \in ElementPool : ~e.fault /\ e.link # None}}

LinkStubs ==
    {LinkArticle(l) : l \in {a \in LinkPool : ~a.fault /\ HrefMatches(a.href)}}

\* What parseMeduzaWebsite can return: the stubs of one listing path, each
\* bare or full, in any order.
MeduzaResults ==
    SeqsUpTo(UNION {RecordsOf(st) : st \in ElementStubs}, MaxRecords)
    \cup SeqsUpTo(UNION {RecordsOf(st) : st \in LinkStubs}, MaxRecords)

InitMeduzaCsv ==
    /\ prog = "meduzaCsv"
    /\ pc = "call"
    /\ maxArticles = 1
    /\ maxRetriesArg = maxRetries
    /\ categories = <<>>
    /\ doc \in MeduzaResults
    /\ Idle

\* main: saveToCsv(mainPageArticles, 'meduza_news_articles.csv')
SaveMeduzaCsv ==
    /\ prog = "meduzaCsv" /\ pc = "call"
    /\ LET data == [k \in 1..Len(doc) |-> MeduzaObject(doc[k])]
           e == meduzaSaveToCsv(data, "meduza_news_articles.csv", files, console)
       IN files' = e.files /\ console' = e.console
    /\ result' = doc
    /\ pc' = "done"
    /\ UNCHANGED <<inputVars, retryVars, listingVars, taskVars, loopVars, browserOpen>>

NextMeduzaCsv == SaveMeduzaCsv

SpecMeduzaCsv == InitMeduzaCsv /\ [][NextMeduzaCsv]_vars

MeduzaCsvWritten == prog = "meduzaCsv" /\ pc = "done" /\ doc # <<>>

MeduzaCsvHeader == CsvFields(CsvLines(files["meduza_news_articles.csv"])[1])
MeduzaCsvRows == Tail(CsvLines(files["meduza_news_articles.csv"]))
MeduzaData == [k \in 1..Len(doc) |-> MeduzaObject(doc[k])]

\* Row r has one field per header column and each field renders the value
\* the record has for the key of its column.
MeduzaRowAligned(r) ==
    LET fields == CsvFields(MeduzaCsvRows[r])
    IN /\ Len(fields) = Len(MeduzaCsvHeader)
       /\ \A j \in 1..Len(fields) :
             LET key == MeduzaCsvHeader[j][1]
             IN /\ key \in KeysOf(<<MeduzaData[r]>>)
                /\ fields[j] = meduzaRender(Get(MeduzaData[r], key))

\* C26: for every record sequence parseMeduzaWebsite can return, full
\* records and bare stubs in any order, the CSV of the Meduza saveToCsv has
\* a header with every key of every record, and every data row has as many
\* fields as the header, each under the column of its own key.
C26_MeduzaCsvAligned ==
    MeduzaCsvWritten =>
        /\ \A key \in KeysOf(MeduzaData) :
               \E j \in 1..Len(MeduzaCsvHeader) : MeduzaCsvHeader[j] = <<key>>
        /\ Len(MeduzaCsvRows) = Len(doc)
        /\ \A r \in 1..Len(doc) : MeduzaRowAligned(r)

\* What the code keeps of C26: when every record has the keys of the first
\* one (all fetched, or all failed), the file is aligned.
MeduzaCsvAlignedWhenUniform ==
    (MeduzaCsvWritten
       /\ \A r \in 1..Len(doc) : ObjectKeys(MeduzaData[r]) = ObjectKeys(MeduzaData[1])) =>
        /\ Len(MeduzaCsvRows) = Len(doc)
        /\ \A r \in 1..Len(doc) : MeduzaRowAligned(r)

\* Two fetched articles were written.
MeduzaCsvUniformWritten ==
    /\ MeduzaCsvWritten /\ Len(doc) = 2
    /\ Len(MeduzaCsvHeader) = 10
    /\ Len(CsvFields(MeduzaCsvRows[2])) = 10

=============================================================================
